---------------------------- MODULE Spec2Model ----------------------------
(***************************************************************************)
(* F1 pecking order: the pace normaliser (normalize_lap_time) and the      *)
(* ranking pipeline of pace_analyzer.py over the laps table of database.py *)
(*                                                                         *)
(* Numbers.  Python floats are modelled by exact arithmetic:               *)
(*   - a time is an integer number of ticks, TicksPerSecond ticks to the   *)
(*     second (every configured constant is a whole number of ticks);      *)
(*   - a fuel mass is an integer number of fuel units, FuelUnitsPerKg to   *)
(*     the kilogram (so that RACE_START_FUEL_LOAD_KG / 3 is whole);        *)
(*   - a mean is the exact fraction [num, den], compared by cross          *)
(*     multiplication, never rounded.                                      *)
(* Rounding of IEEE doubles is outside the model.                          *)
(*                                                                         *)
(* Optional values.  Python's None is the empty sequence <<>> and a        *)
(* present value v is <<v>> for numeric fields; for string fields None is  *)
(* the string NoneStr, which is in no configuration table.                 *)
(***************************************************************************)
EXTENDS Integers, Sequences, FiniteSets, TLC

VARIABLES
    meetings,   \* table meetings: set of rows
    sessions,   \* table sessions: set of rows
    drivers,    \* table drivers: set of rows, one per (driver_number, session_key)
    laps,       \* table laps, clustered by its UNIQUE key: (session_key,
                \* driver_number) -> the rows in lap_number order
    response,   \* what the last ranking request returned to the presentation layer
    n_args,     \* normaliser harness: the arguments of the call under test
    n_first,    \* normaliser harness: the first call made, [args, ret]
    n_second,   \* normaliser harness: a second call differing in one argument
    calls,      \* concurrent requests: per invocation, its position, request and result
    frames,     \* concurrent requests: the local variables of each invocation
    marking     \* the collector's lap list before and after mark_invalid_laps

nvars == <<n_args, n_first, n_second>>

cvars == <<calls, frames>>

mvars == <<marking>>

tables == <<meetings, sessions, drivers>>

svars == <<meetings, sessions, drivers, laps, response>>

vars == <<meetings, sessions, drivers, laps, response, n_args, n_first, n_second,
          calls, frames, marking>>

-----------------------------------------------------------------------------
(* Units *)

TicksPerSecond == 10 * 1000

FuelUnitsPerKg == 3 * 10

Ticks(sec) == sec * TicksPerSecond

None == <<>>

Some(v) == <<v>>

IsNone(o) == o = <<>>

Val(o) == o[1]

NoneStr == "None"

Max(a, b) == IF a >= b THEN a ELSE b

Min(a, b) == IF a <= b THEN a ELSE b

-----------------------------------------------------------------------------
(* config.py *)

\* TIRE_COMPOUND_DELTAS, in ticks (seconds faster than HARD, negative = faster)
TIRE_COMPOUND_DELTAS ==
    [SOFT |-> -10000, MEDIUM |-> -5000, HARD |-> 0, INTERMEDIATE |-> 0, WET |-> 0]

\* LAP_TIME_OUTLIER_THRESHOLD = 1.5, in tenths
LAP_TIME_OUTLIER_THRESHOLD == 15

\* MIN_VALID_LAP_TIME = 60.0 seconds
MIN_VALID_LAP_TIME == 60

\* MAX_VALID_LAP_TIME = 180.0 seconds
MAX_VALID_LAP_TIME == 180

\* 0.03 s per lap of tire age, in ticks
TIRE_DEGRADATION_PER_LAP == 300

\* 0.033 s per kg, in ticks per kg
FUEL_EFFECT_PER_KG == 330

\* 1.8 kg per lap, in fuel units per lap
FUEL_CONSUMPTION_PER_LAP == 54

\* kg
QUALI_FUEL_LOAD_KG == 5

\* kg
RACE_START_FUEL_LOAD_KG == 110

\* the fuel load every lap is normalised to (target_fuel), kg
TARGET_FUEL_KG == 50

\* the default of normalize_lap_time's total_laps parameter
DEFAULT_TOTAL_LAPS == 58

\* ticks per fuel unit: fuel_difference * FUEL_EFFECT_PER_KG for a difference
\* held in fuel units
FuelEffect(fuelUnits) == (fuelUnits * FUEL_EFFECT_PER_KG) \div FuelUnitsPerKg

\* (mutant) a compound that is not in the table gets the delta of MEDIUM
CompoundDelta_unknown_as_medium(compound, default) ==
    IF compound \in DOMAIN TIRE_COMPOUND_DELTAS
    THEN TIRE_COMPOUND_DELTAS[compound]
    ELSE TIRE_COMPOUND_DELTAS["MEDIUM"]

\* dict.get(key, default) on TIRE_COMPOUND_DELTAS
CompoundDelta(compound, default) ==
    IF compound \in DOMAIN TIRE_COMPOUND_DELTAS
    THEN TIRE_COMPOUND_DELTAS[compound]
    ELSE default

-----------------------------------------------------------------------------
(* pace_analyzer.normalize_lap_time *)

\* (mutant) the delta against HARD is used as it is, never re-based to MEDIUM
compound_adjustment_hard_baseline(compound) ==
    CompoundDelta(compound, 0)

\* ADJUSTMENT 1: compound_delta - medium_delta
compound_adjustment(compound) ==
    CompoundDelta(compound, 0) - CompoundDelta("MEDIUM", -5000)

\* (mutant) the first lap of age is not counted
degradation_off_by_one(tire_age) ==
    IF ~IsNone(tire_age) /\ Val(tire_age) > 0
    THEN (Val(tire_age) - 1) * TIRE_DEGRADATION_PER_LAP
    ELSE 0

\* ADJUSTMENT 2: tire_age * TIRE_DEGRADATION_PER_LAP when the age is known
\* and positive, else nothing
degradation(tire_age) ==
    IF ~IsNone(tire_age) /\ Val(tire_age) > 0
    THEN Val(tire_age) * TIRE_DEGRADATION_PER_LAP
    ELSE 0

\* (mutant) the estimate is not clamped at an empty tank
current_fuel_unclamped(startUnits, lap_number) ==
    startUnits - lap_number * FUEL_CONSUMPTION_PER_LAP

\* current_fuel = max(0, start - lap_number * FUEL_CONSUMPTION_PER_LAP), fuel units
current_fuel(startUnits, lap_number) ==
    Max(0, startUnits - lap_number * FUEL_CONSUMPTION_PER_LAP)

\* (mutant) a sprint starts on the full race load
fuel_adjustment_sprint_full_tank(session_type, lap_number) ==
    IF session_type \in {"Race", "Sprint"}
    THEN FuelEffect(current_fuel(RACE_START_FUEL_LOAD_KG * FuelUnitsPerKg, lap_number)
                    - TARGET_FUEL_KG * FuelUnitsPerKg)
    ELSE IF session_type \in {"Qualifying", "Sprint Qualifying"}
    THEN FuelEffect((QUALI_FUEL_LOAD_KG - TARGET_FUEL_KG) * FuelUnitsPerKg)
    ELSE 0

\* (mutant) qualifying burns fuel lap by lap like a race, from its own load
fuel_adjustment_quali_as_race(session_type, lap_number) ==
    IF session_type = "Race"
    THEN FuelEffect(current_fuel(RACE_START_FUEL_LOAD_KG * FuelUnitsPerKg, lap_number)
                    - TARGET_FUEL_KG * FuelUnitsPerKg)
    ELSE IF session_type = "Sprint"
    THEN FuelEffect(current_fuel((RACE_START_FUEL_LOAD_KG * FuelUnitsPerKg) \div 3,
                                 lap_number)
                    - TARGET_FUEL_KG * FuelUnitsPerKg)
    ELSE IF session_type \in {"Qualifying", "Sprint Qualifying"}
    THEN FuelEffect(current_fuel(QUALI_FUEL_LOAD_KG * FuelUnitsPerKg, lap_number)
                    - TARGET_FUEL_KG * FuelUnitsPerKg)
    ELSE 0

\* ADJUSTMENT 3: the fuel adjustment of the session type's branch
fuel_adjustment(session_type, lap_number) ==
    IF session_type = "Race"
    THEN FuelEffect(current_fuel(RACE_START_FUEL_LOAD_KG * FuelUnitsPerKg, lap_number)
                    - TARGET_FUEL_KG * FuelUnitsPerKg)
    ELSE IF session_type = "Sprint"
    THEN FuelEffect(current_fuel((RACE_START_FUEL_LOAD_KG * FuelUnitsPerKg) \div 3,
                                 lap_number)
                    - TARGET_FUEL_KG * FuelUnitsPerKg)
    ELSE IF session_type \in {"Qualifying", "Sprint Qualifying"}
    THEN FuelEffect((QUALI_FUEL_LOAD_KG - TARGET_FUEL_KG) * FuelUnitsPerKg)
    ELSE 0

\* (mutant) a missing raw time is taken as 0 instead of being propagated
normalize_lap_time_none_as_zero(raw_lap_time, compound, tire_age, session_type, lap_number, total_laps) ==
    Some((IF IsNone(raw_lap_time) THEN 0 ELSE Val(raw_lap_time))
         - compound_adjustment(compound)
         - degradation(tire_age)
         - fuel_adjustment(session_type, lap_number))

\* (mutant) in a Race the fuel on board is estimated from the laps that
\* remain, total_laps - lap_number
normalize_lap_time_fuel_from_remaining_laps(raw_lap_time, compound, tire_age, session_type, lap_number, total_laps) ==
    IF IsNone(raw_lap_time)
    THEN None
    ELSE Some(Val(raw_lap_time)
              - compound_adjustment(compound)
              - degradation(tire_age)
              - (IF session_type = "Race"
                 THEN FuelEffect(Max(0, total_laps - lap_number) * FUEL_CONSUMPTION_PER_LAP
                                 - TARGET_FUEL_KG * FuelUnitsPerKg)
                 ELSE fuel_adjustment(session_type, lap_number)))

\* (mutant) the compound adjustment is added instead of subtracted
normalize_lap_time_compound_added(raw_lap_time, compound, tire_age, session_type, lap_number, total_laps) ==
    IF IsNone(raw_lap_time)
    THEN None
    ELSE Some(Val(raw_lap_time)
              + compound_adjustment(compound)
              - degradation(tire_age)
              - fuel_adjustment(session_type, lap_number))

normalize_lap_time(raw_lap_time, compound, tire_age, session_type, lap_number, total_laps) ==
    IF IsNone(raw_lap_time)
    THEN None
    ELSE Some(Val(raw_lap_time)
              - compound_adjustment(compound)
              - degradation(tire_age)
              - fuel_adjustment(session_type, lap_number))

-----------------------------------------------------------------------------
(* Exact fractions.  A value is w + n/d with 0 <= n < d in lowest terms, so  *)
(* that equal values are equal records.                                      *)

RECURSIVE Gcd(_, _)
Gcd(a, b) == IF b = 0 THEN a ELSE Gcd(b, a % b)

\* num / den for den > 0
Q(num, den) ==
    LET r == num % den
        g == Gcd(den, r)
    IN  [w |-> num \div den, n |-> r \div g, d |-> den \div g]

QInt(i) == [w |-> i, n |-> 0, d |-> 1]

QAdd(a, b) ==
    LET f == Q(a.n * b.d + b.n * a.d, a.d * b.d)
    IN  [w |-> a.w + b.w + f.w, n |-> f.n, d |-> f.d]

QNeg(a) ==
    IF a.n = 0
    THEN [w |-> -a.w, n |-> 0, d |-> 1]
    ELSE [w |-> -a.w - 1, n |-> a.d - a.n, d |-> a.d]

QSub(a, b) == QAdd(a, QNeg(b))

\* a / k for an integer k > 0
QDivInt(a, k) ==
    LET f == Q((a.w % k) * a.d + a.n, a.d * k)
    IN  [w |-> (a.w \div k) + f.w, n |-> f.n, d |-> f.d]

QLess(a, b) == a.w < b.w \/ (a.w = b.w /\ a.n * b.d < b.n * a.d)

QLeq(a, b) == ~QLess(b, a)

QZero == QInt(0)

-----------------------------------------------------------------------------
(* Python lists and insertion-ordered dicts as sequences *)

RECURSIVE SumRange(_, _, _)
SumRange(s, lo, hi) ==
    IF lo > hi THEN 0
    ELSE IF lo = hi THEN s[lo]
    ELSE SumRange(s, lo, (lo + hi) \div 2) + SumRange(s, (lo + hi) \div 2 + 1, hi)

\* sum(s)
Sum(s) == SumRange(s, 1, Len(s))

\* min(s) of a non-empty list of integers
MinOf(s) == CHOOSE m \in {s[i] : i \in DOMAIN s} : \A i \in DOMAIN s : m <= s[i]

RECURSIVE ConcatFrom(_, _)
ConcatFrom(ss, i) == IF i > Len(ss) THEN <<>> ELSE ss[i] \o ConcatFrom(ss, i + 1)

\* the lists of ss one after the other
Concat(ss) == ConcatFrom(ss, 1)

Range(s) == {s[i] : i \in DOMAIN s}

Map(s, F(_)) == [i \in DOMAIN s |-> F(s[i])]

\* sorted(s, key=...) and list.sort(key=...): ascending and stable, an element
\* moves in front of another only when its key is strictly smaller
StableSort(s, Less(_, _)) ==
    LET RECURSIVE Insert(_, _)
        Insert(sorted, x) ==
            IF sorted = <<>> THEN <<x>>
            ELSE IF Less(x, sorted[Len(sorted)])
                 THEN Append(Insert(SubSeq(sorted, 1, Len(sorted) - 1), x),
                             sorted[Len(sorted)])
                 ELSE Append(sorted, x)
        RECURSIVE From(_, _)
        From(i, acc) ==
            IF i > Len(s) THEN acc ELSE From(i + 1, Insert(acc, s[i]))
    IN  From(1, <<>>)

\* the keys of a dict filled by walking s, in insertion (first seen) order
Keys(s, K(_)) ==
    LET ks == {K(s[i]) : i \in DOMAIN s}
        First(k) == CHOOSE i \in DOMAIN s : K(s[i]) = k /\ \A j \in 1..(i - 1) : K(s[j]) # k
        first == [k \in ks |-> First(k)]
    IN  [n \in 1..Cardinality(ks) |->
            CHOOSE k \in ks : Cardinality({o \in ks : first[o] < first[k]}) = n - 1]

\* s[:k]
Take(s, k) == SubSeq(s, 1, Min(k, Len(s)))

RECURSIVE SetToSeq(_)
SetToSeq(S) ==
    IF S = {} THEN <<>>
    ELSE LET x == CHOOSE y \in S : TRUE IN <<x>> \o SetToSeq(S \ {x})

-----------------------------------------------------------------------------
(* The store: the tables of database.py as the collector leaves them *)

\* Sizes of the two long stints (laps of one driver in one session)
LongStintLaps == 37

HugeStintLaps == 207

\* SESSION_WEIGHTS, in tenths
SESSION_WEIGHTS ==
    ("Practice 1" :> 5) @@ ("Practice 2" :> 7) @@ ("Practice 3" :> 6)
        @@ ("Sprint Qualifying" :> 8) @@ ("Sprint" :> 8)
        @@ ("Qualifying" :> 10) @@ ("Race" :> 10)

\* (mutant) a session type that is not in the table counts in full
SessionWeight_unknown_as_full(session_type) ==
    IF session_type \in DOMAIN SESSION_WEIGHTS THEN SESSION_WEIGHTS[session_type] ELSE 10

\* SESSION_WEIGHTS.get(session_type, 0.5), in tenths
SessionWeight(session_type) ==
    IF session_type \in DOMAIN SESSION_WEIGHTS THEN SESSION_WEIGHTS[session_type] ELSE 5

\* meetings: meeting 3 is the most recent one and has no session
MeetingRows ==
    { [meeting_key |-> 1, meeting_name |-> "Grand Prix 1", date_start |-> 20],
      [meeting_key |-> 2, meeting_name |-> "Grand Prix 2", date_start |-> 10],
      [meeting_key |-> 3, meeting_name |-> "Grand Prix 3", date_start |-> 30] }

MeetingKeys == {r.meeting_key : r \in MeetingRows}

\* sessions: Practice 1 is held at both meetings; "Sprint Shootout" is in no
\* weight table; the sessions of a meeting start at different times
SessionRows ==
    { [session_key |-> 11, meeting_key |-> 1, session_name |-> "Practice 1",
       session_type |-> "Practice 1", date_start |-> 21],
      [session_key |-> 12, meeting_key |-> 1, session_name |-> "Race",
       session_type |-> "Race", date_start |-> 23],
      [session_key |-> 21, meeting_key |-> 2, session_name |-> "Practice 1",
       session_type |-> "Practice 1", date_start |-> 11],
      [session_key |-> 22, meeting_key |-> 2, session_name |-> "Sprint Shootout",
       session_type |-> "Sprint Shootout", date_start |-> 12] }

SessionKeys == {r.session_key : r \in SessionRows}

DriverNumbers == {1, 2, 3, 4}

\* drivers: one row per driver and session; drivers 3 and 4 have a team at
\* meeting 1 and neither team nor colour at meeting 2
DriverRows ==
    { [driver_number |-> d, session_key |-> k,
       full_name |-> CASE d = 1 -> "Driver A" [] d = 2 -> "Driver B"
                       [] d = 3 -> "Driver C" [] OTHER -> "Driver D",
       name_acronym |-> CASE d = 1 -> "AAA" [] d = 2 -> "BBB"
                          [] d = 3 -> "CCC" [] OTHER -> "DDD",
       team_name |-> CASE d \in {1, 2} -> "Team X"
                       [] d \in {3, 4} /\ k \in {11, 12} -> "Team Y"
                       [] OTHER -> NoneStr,
       team_color |-> CASE d \in {1, 2} -> "#0000FF"
                        [] d \in {3, 4} /\ k \in {11, 12} -> "#FF0000"
                        [] OTHER -> NoneStr]
        : d \in DriverNumbers, k \in SessionKeys }

Cells == SessionKeys \X DriverNumbers

\* a row of laps as bulk_insert_laps writes it
LapRow(k, d, n, lap) ==
    [session_key |-> k, driver_number |-> d, lap_number |-> n,
     lap_duration |-> lap.lap_duration,
     sector_1_duration |-> lap.sector_1_duration,
     sector_2_duration |-> lap.sector_2_duration,
     sector_3_duration |-> lap.sector_3_duration,
     speed_trap |-> lap.speed_trap,
     compound |-> lap.compound, tire_age |-> lap.tire_age,
     is_valid_for_ranking |-> lap.is_valid_for_ranking]

\* what the ingestion client delivers for one lap of one driver (lap_number
\* is the position in the stint), before the session key is added
FullLap(duration, s1, s2, s3, speed, compound, age, valid) ==
    [lap_duration |-> duration,
     sector_1_duration |-> s1, sector_2_duration |-> s2, sector_3_duration |-> s3,
     speed_trap |-> speed,
     compound |-> compound, tire_age |-> age, is_valid_for_ranking |-> valid]

\* a lap whose three sectors split the lap time, with a speed trap reading
StintLap(duration, compound, age, valid) ==
    IF IsNone(duration)
    THEN FullLap(None, None, None, None, None, compound, age, valid)
    ELSE FullLap(duration,
                 Some(Val(duration) \div 4), Some(Val(duration) \div 3),
                 Some(Val(duration) - Val(duration) \div 4 - Val(duration) \div 3),
                 Some(300 + ((Val(duration) \div 1000) % 7)),
                 compound, age, valid)

\* the example of the spec: 90.0, 89.0, 95.0 on fresh MEDIUM tires
StintExample ==
    << StintLap(Some(Ticks(90)), "MEDIUM", Some(0), TRUE),
       StintLap(Some(Ticks(89)), "MEDIUM", Some(0), TRUE),
       StintLap(Some(Ticks(95)), "MEDIUM", Some(0), TRUE) >>

StintFast ==
    << StintLap(Some(Ticks(88)), "SOFT", Some(1), TRUE),
       StintLap(Some(Ticks(91)), "SOFT", Some(2), TRUE),
       StintLap(Some(Ticks(89)), "SOFT", Some(3), TRUE) >>

StintSingle ==
    << StintLap(Some(Ticks(90) + 5000), "HARD", Some(5), TRUE) >>

\* a pit-out lap marked invalid, a lap without a time, and three timed laps,
\* one without sector times, one with a sector of 0.0 and no speed reading
StintRace ==
    << StintLap(Some(Ticks(120)), "SOFT", Some(0), FALSE),
       StintLap(Some(Ticks(93)), "SOFT", Some(1), TRUE),
       StintLap(None, "SOFT", Some(2), TRUE),
       FullLap(Some(Ticks(92) + 5000), None, None, None, None, "SOFT", Some(3), TRUE),
       FullLap(Some(Ticks(92)), Some(0), Some(Ticks(30)), Some(Ticks(31)), Some(0),
               NoneStr, None, TRUE) >>

StintRaceShort ==
    << StintLap(Some(Ticks(94)), "MEDIUM", Some(0), TRUE),
       StintLap(Some(Ticks(93) + 1000), "MEDIUM", Some(1), TRUE) >>

StintTwo ==
    << StintLap(Some(Ticks(91)), "UNKNOWN", Some(0), TRUE),
       StintLap(Some(Ticks(90) + 2000), "HARD", None, TRUE) >>

\* nothing to rank: a pit-out lap marked invalid and a lap without a time
StintOut ==
    << StintLap(Some(Ticks(130)), "HARD", Some(0), FALSE),
       StintLap(None, "HARD", Some(1), TRUE) >>

\* n laps on HARD tires aging lap by lap, the times scattered over 13 values
StintLong(n) ==
    [i \in 1..n |->
        StintLap(Some(Ticks(88) + 1000 * ((i * 7) % 13)), "HARD", Some(i % 20), TRUE)]

\* the deliveries the ingestion client may make: cell -> stints
Deliveries ==
    { <<11, 1, StintExample>>, <<11, 2, StintExample>>, <<11, 2, StintFast>>,
      <<11, 3, StintSingle>>,
      <<12, 1, StintRace>>, <<12, 2, StintRaceShort>>,
      <<21, 1, StintLong(LongStintLaps)>>, <<21, 1, StintLong(HugeStintLaps)>>,
      <<21, 3, StintExample>>,
      <<22, 1, StintTwo>>, <<22, 1, StintOut>> }

\* the greatest element of a non-empty set of integers
MaxOf(S) == CHOOSE m \in S : \A x \in S : x <= m

\* INSERT OR REPLACE of the rows `new` into the rows of one (session, driver),
\* both keyed by lap_number (UNIQUE(session_key, driver_number, lap_number)):
\* a row with the lap_number of a new one is replaced, the others stay
Upsert(rows, new) == new @@ rows

\* no response is waiting to be delivered
NoResponse == [kind |-> "none", request |-> <<>>, reloaded |-> FALSE]

-----------------------------------------------------------------------------
(* data_collector.mark_invalid_laps *)

\* a lap record of the collector before it is marked: the duration, the
\* pit-out flag of the API, and no is_valid_for_ranking key yet
CollectedLap(duration, is_pit_out) ==
    [lap_duration |-> duration, is_pit_out_lap |-> is_pit_out, is_valid_for_ranking |-> None]

\* valid_times: the truthy durations strictly between the two sanity limits
valid_times(lap_list) ==
    Map(SelectSeq(lap_list, LAMBDA lap :
            /\ ~IsNone(lap.lap_duration) /\ Val(lap.lap_duration) # 0
            /\ Ticks(MIN_VALID_LAP_TIME) < Val(lap.lap_duration)
            /\ Val(lap.lap_duration) < Ticks(MAX_VALID_LAP_TIME)),
        LAMBDA lap : Val(lap.lap_duration))

\* (mutant) the verdict without the pit-out test
LapVerdict_pit_out_kept(lap, times, session_type) ==
    LET lap_time == lap.lap_duration
    IN  IF IsNone(lap_time) THEN FALSE
        ELSE IF Val(lap_time) < Ticks(MIN_VALID_LAP_TIME)
                   \/ Val(lap_time) > Ticks(MAX_VALID_LAP_TIME) THEN FALSE
        ELSE IF Val(lap_time) * 10 * Len(times) > Sum(times) * LAP_TIME_OUTLIER_THRESHOLD
             THEN FALSE
        ELSE IF session_type = "Qualifying"
             THEN ~(Val(lap_time) * 100 > MinOf(times) * 105)
        ELSE TRUE

\* the body of the marking loop for one lap, `times` being the non-empty
\* valid_times: lap_time > average_lap_time * LAP_TIME_OUTLIER_THRESHOLD is
\* compared after multiplying both sides by 10 * len(valid_times), and
\* lap_time > best_time * 1.05 after multiplying both sides by 100
LapVerdict(lap, times, session_type) ==
    LET lap_time == lap.lap_duration
    IN  IF IsNone(lap_time) THEN FALSE
        ELSE IF lap.is_pit_out_lap THEN FALSE
        ELSE IF Val(lap_time) < Ticks(MIN_VALID_LAP_TIME)
                   \/ Val(lap_time) > Ticks(MAX_VALID_LAP_TIME) THEN FALSE
        ELSE IF Val(lap_time) * 10 * Len(times) > Sum(times) * LAP_TIME_OUTLIER_THRESHOLD
             THEN FALSE
        ELSE IF session_type = "Qualifying"
             THEN ~(Val(lap_time) * 100 > MinOf(times) * 105)
        ELSE TRUE

\* mark_invalid_laps(laps, session_type)
mark_invalid_laps(lap_list, session_type) ==
    IF lap_list = <<>> THEN lap_list
    ELSE LET times == valid_times(lap_list)
         IN  IF times = <<>>
             THEN [i \in DOMAIN lap_list |->
                      [lap_list[i] EXCEPT !.is_valid_for_ranking = Some(FALSE)]]
             ELSE [i \in DOMAIN lap_list |->
                      [lap_list[i] EXCEPT !.is_valid_for_ranking =
                                              Some(LapVerdict(lap_list[i], times, session_type))]]

\* no lap list is being marked
NoMarking == marking = [session_type |-> NoneStr, laps |-> <<>>, pc |-> "idle"]

\* the requests that may be in progress at the same time (the development
\* server of app.py handles each request in a thread of its own)
Invocations == {1, 2}

\* an invocation that is not running
Idle == [pc |-> "idle", request |-> <<>>, result |-> None, overlapped |-> FALSE]

\* the local variables of a ranking function before any is assigned
EmptyFrame ==
    [all_laps |-> <<>>, driver_scores |-> <<>>, info_rows |-> {}, session_laps |-> <<>>,
     meeting_rows |-> {}, session_list |-> <<>>, session_data |-> <<>>]

NoCalls ==
    /\ calls = [p \in Invocations |-> Idle]
    /\ frames = [p \in Invocations |-> EmptyFrame]

StoreInit ==
    /\ meetings = MeetingRows
    /\ sessions = SessionRows
    /\ drivers = DriverRows
    /\ laps = [c \in Cells |-> <<>>]
    /\ response = NoResponse
    /\ NoCalls
    /\ NoMarking

\* bulk_insert_laps(laps_list, session_key) with the laps of one driver; the
\* collector writes between the requests
bulk_insert_laps(k, d, stint) ==
    /\ response = NoResponse
    /\ laps' = [laps EXCEPT ![<<k, d>>] =
                  Upsert(@, [n \in DOMAIN stint |-> LapRow(k, d, n, stint[n])])]
    /\ UNCHANGED <<tables, response, nvars, cvars, mvars>>

SaveLaps == \E dl \in Deliveries : bulk_insert_laps(dl[1], dl[2], dl[3])

-----------------------------------------------------------------------------
(* pace_analyzer: data retrieval *)

\* the row of a table with the given key, as the JOIN finds it
SessionRow(k) == CHOOSE r \in sessions : r.session_key = k

MeetingRow(m) == CHOOSE r \in meetings : r.meeting_key = m

DriverRow(d, k) == CHOOSE r \in drivers : r.driver_number = d /\ r.session_key = k

\* the (session, driver) pairs whose laps have a session, a meeting and a
\* driver row to JOIN
JoinedCells ==
    {c \in Cells :
        /\ \E r \in sessions :
              /\ r.session_key = c[1]
              /\ \E m \in meetings : m.meeting_key = r.meeting_key
        /\ \E r \in drivers : r.driver_number = c[2] /\ r.session_key = c[1]}

\* ORDER BY m.date_start DESC, s.session_key, l.driver_number on cells
CellBefore(a, b) ==
    LET da == MeetingRow(SessionRow(a[1]).meeting_key).date_start
        db == MeetingRow(SessionRow(b[1]).meeting_key).date_start
    IN  \/ da > db
        \/ da = db /\ a[1] < b[1]
        \/ da = db /\ a[1] = b[1] /\ a[2] < b[2]

\* the laps of one cell in lap_number order (lap numbers count from 1)
LapsOf(c) ==
    IF DOMAIN laps[c] = {} THEN <<>>
    ELSE LET numbers == SelectSeq([n \in 1..MaxOf(DOMAIN laps[c]) |-> n],
                                  LAMBDA n : n \in DOMAIN laps[c])
         IN  [i \in DOMAIN numbers |-> laps[c][numbers[i]]]

\* (mutant) the WHERE clause is missing
valid_lap_every(l) == TRUE

\* (mutant) the WHERE clause without the validity flag
valid_lap_any_timed(l) == ~IsNone(l.lap_duration)

\* WHERE l.is_valid_for_ranking = 1 AND l.lap_duration IS NOT NULL
valid_lap(l) == l.is_valid_for_ranking /\ ~IsNone(l.lap_duration)

\* the SELECT list of get_all_valid_laps for the laps of one cell that pass
\* the WHERE clause
ValidJoinedLaps(c) ==
    LET s == SessionRow(c[1])
        d == DriverRow(c[2], c[1])
        kept == SelectSeq(LapsOf(c), valid_lap)
    IN  [i \in DOMAIN kept |->
            [session_key |-> kept[i].session_key,
             driver_number |-> kept[i].driver_number,
             lap_number |-> kept[i].lap_number,
             lap_duration |-> kept[i].lap_duration,
             compound |-> kept[i].compound,
             tire_age |-> kept[i].tire_age,
             session_type |-> s.session_type,
             session_name |-> s.session_name,
             meeting_key |-> s.meeting_key,
             driver_name |-> d.full_name,
             team_name |-> d.team_name,
             team_color |-> d.team_color,
             name_acronym |-> d.name_acronym,
             meeting_name |-> MeetingRow(s.meeting_key).meeting_name]]

\* the rows of the query in its ORDER BY order (the rows of a cell are kept in
\* lap_number order)
ValidLapsOrdered ==
    Concat(Map(StableSort(SetToSeq(JoinedCells), CellBefore), ValidJoinedLaps))

Reverse(s) == [i \in DOMAIN s |-> s[Len(s) + 1 - i]]

\* (mutant) the query without its ORDER BY: the rows come in the order above
\* or in another one
get_all_valid_laps_unordered == {ValidLapsOrdered, Reverse(ValidLapsOrdered)}

\* get_all_valid_laps: the lists the query can return.  Its ORDER BY key
\* (date_start, session_key, driver_number, lap_number) ends in the UNIQUE key
\* of laps, so there is one.
get_all_valid_laps == {ValidLapsOrdered}

\* get_session_total_laps: MAX(lap_number) over all laps of the session, 58
\* when there is none
get_session_total_laps(session_key) ==
    LET nums == UNION {DOMAIN laps[c] : c \in {c \in Cells : c[1] = session_key}}
        max_lap == IF nums = {} THEN 0 ELSE MaxOf(nums)
    IN  IF max_lap # 0 THEN max_lap ELSE DEFAULT_TOTAL_LAPS

-----------------------------------------------------------------------------
(* pace_analyzer: pace calculation *)

\* truthiness of an optional string (if team_name:, if lap['compound']:)
Truthy(str) == str \notin {NoneStr, ""}

sorted(times) == SortSeq(times, <)

\* (mutant) the cap of 20 laps is missing
num_best_uncapped(count) == Max(3, count \div 10)

\* num_best = max(3, min(20, len(sorted_times) // 10))
num_best(count) == Max(3, Min(20, count \div 10))

\* best_times = sorted_times[:num_best]
best_times(times) == Take(sorted(times), num_best(Len(times)))

\* statistics.mean of a non-empty list of times
mean(times) == Q(Sum(times), Len(times))

\* the laps of the query with lap['normalized_time'] set
NormalizedLaps(all_laps) ==
    LET session_totals == {<<k, get_session_total_laps(k)>> : k \in SessionKeys}
        TotalOf(k) == (CHOOSE p \in session_totals : p[1] = k)[2]
    IN  [i \in DOMAIN all_laps |->
            all_laps[i] @@
            [normalized_time |->
                normalize_lap_time(all_laps[i].lap_duration, all_laps[i].compound,
                                   all_laps[i].tire_age, all_laps[i].session_type,
                                   all_laps[i].lap_number,
                                   TotalOf(all_laps[i].session_key))]]

\* (mutant) lap_count counts the best slice only
SessionDetail_slice_count(session_type, times) ==
    [session_type |-> session_type,
     average_pace |-> mean(best_times(times)),
     best_lap |-> MinOf(times),
     lap_count |-> Len(best_times(times)),
     weight |-> SessionWeight(session_type)]

\* session_details[session_type]
SessionDetail(session_type, times) ==
    [session_type |-> session_type,
     average_pace |-> mean(best_times(times)),
     best_lap |-> MinOf(times),
     lap_count |-> Len(times),
     weight |-> SessionWeight(session_type)]

\* (mutant) best_normalized_lap is the best lap of the driver's first session
\* type only
DriverScore_best_of_first_type(driver_name, dlaps) ==
    LET types == Keys(dlaps, LAMBDA l : l.session_type)
        TimesOf(st) == Map(SelectSeq(dlaps, LAMBDA l : l.session_type = st),
                           LAMBDA l : Val(l.normalized_time))
        weighted_times ==
            Concat([i \in DOMAIN types |->
                      Map(best_times(TimesOf(types[i])),
                          LAMBDA t : <<t, SessionWeight(types[i])>>)])
        total_weight == Sum(Map(weighted_times, LAMBDA p : p[2]))
    IN  [driver_name |-> driver_name,
         team_name |-> dlaps[1].team_name,
         team_color |-> IF Truthy(dlaps[1].team_color) THEN dlaps[1].team_color ELSE "#888888",
         name_acronym |-> dlaps[1].name_acronym,
         pace_score |-> Q(Sum(Map(weighted_times, LAMBDA p : p[1] * p[2])), total_weight),
         total_laps |-> Len(dlaps),
         session_details |-> [i \in DOMAIN types |-> SessionDetail(types[i], TimesOf(types[i]))],
         best_normalized_lap |-> MinOf(TimesOf(types[1]))]

\* (mutant) the score is the weighted mean of the session types' averages, one
\* value per session type instead of one per entry of its best slice
DriverScore_weighting_averages(driver_name, dlaps) ==
    LET types == Keys(dlaps, LAMBDA l : l.session_type)
        TimesOf(st) == Map(SelectSeq(dlaps, LAMBDA l : l.session_type = st),
                           LAMBDA l : Val(l.normalized_time))
        total_weight == Sum(Map(types, SessionWeight))
        RECURSIVE WeightedFrom(_)
        WeightedFrom(i) ==
            IF i > Len(types) THEN QZero
            ELSE QAdd(QDivInt(Q(Sum(best_times(TimesOf(types[i]))) * SessionWeight(types[i]),
                                Len(best_times(TimesOf(types[i])))), total_weight),
                      WeightedFrom(i + 1))
    IN  [driver_name |-> driver_name,
         team_name |-> dlaps[1].team_name,
         team_color |-> IF Truthy(dlaps[1].team_color) THEN dlaps[1].team_color ELSE "#888888",
         name_acronym |-> dlaps[1].name_acronym,
         pace_score |-> WeightedFrom(1),
         total_laps |-> Len(dlaps),
         session_details |-> [i \in DOMAIN types |-> SessionDetail(types[i], TimesOf(types[i]))],
         best_normalized_lap |-> MinOf(Map(dlaps, LAMBDA l : Val(l.normalized_time)))]

\* driver_scores[driver_name] from the driver's laps that have a normalized
\* time ('consistency', a standard deviation, is left out)
DriverScore(driver_name, dlaps) ==
    LET types == Keys(dlaps, LAMBDA l : l.session_type)
        TimesOf(st) == Map(SelectSeq(dlaps, LAMBDA l : l.session_type = st),
                           LAMBDA l : Val(l.normalized_time))
        weighted_times ==
            Concat([i \in DOMAIN types |->
                      Map(best_times(TimesOf(types[i])),
                          LAMBDA t : <<t, SessionWeight(types[i])>>)])
        total_weight == Sum(Map(weighted_times, LAMBDA p : p[2]))
    IN  [driver_name |-> driver_name,
         team_name |-> dlaps[1].team_name,
         team_color |-> IF Truthy(dlaps[1].team_color) THEN dlaps[1].team_color ELSE "#888888",
         name_acronym |-> dlaps[1].name_acronym,
         pace_score |-> Q(Sum(Map(weighted_times, LAMBDA p : p[1] * p[2])), total_weight),
         total_laps |-> Len(dlaps),
         session_details |-> [i \in DOMAIN types |-> SessionDetail(types[i], TimesOf(types[i]))],
         best_normalized_lap |-> MinOf(Map(dlaps, LAMBDA l : Val(l.normalized_time)))]

\* calculate_driver_pace_scores on the laps the query returned: the values of
\* driver_scores in insertion order
calculate_driver_pace_scores(all_laps) ==
    IF all_laps = <<>> THEN <<>>
    ELSE LET with_time == SelectSeq(NormalizedLaps(all_laps),
                                     LAMBDA l : ~IsNone(l.normalized_time))
             names == Keys(with_time, LAMBDA l : l.driver_name)
         IN  [i \in DOMAIN names |->
                DriverScore(names[i], SelectSeq(with_time, LAMBDA l : l.driver_name = names[i]))]

\* min(..., key=pace_score): the first entry with the least pace_score
FirstMinPace(ds) ==
    LET RECURSIVE From(_, _)
        From(i, best) ==
            IF i > Len(ds) THEN best
            ELSE From(i + 1, IF QLess(ds[i].pace_score, best.pace_score) THEN ds[i] ELSE best)
    IN  From(2, ds[1])

MaxPace(ds) ==
    LET RECURSIVE From(_, _)
        From(i, m) ==
            IF i > Len(ds) THEN m
            ELSE From(i + 1, IF QLess(m, ds[i].pace_score) THEN ds[i].pace_score ELSE m)
    IN  From(2, ds[1].pace_score)

SumPace(ds) ==
    LET RECURSIVE From(_)
        From(i) == IF i > Len(ds) THEN QZero ELSE QAdd(ds[i].pace_score, From(i + 1))
    IN  From(1)

\* (mutant) the team pace is the average of its drivers, as the docstring of
\* calculate_team_pace_scores has it
TeamPace_average(members) == QDivInt(SumPace(members), Len(members))

\* (mutant) the team pace is the pace of the team's slowest driver
TeamPace_slowest(members) == MaxPace(members)

\* the team pace: best_driver['pace_score']
TeamPace(members) == FirstMinPace(members).pace_score

\* (mutant) driver_gap is a quarter of the distance from the fastest driver to
\* the slowest
TeamScore_quarter_gap(team_name, members) ==
    [team_name |-> team_name,
     team_color |-> IF Truthy(members[1].team_color) THEN members[1].team_color ELSE "#888888",
     pace_score |-> TeamPace(members),
     team_average |-> QDivInt(SumPace(members), Len(members)),
     driver_gap |-> QDivInt(QSub(MaxPace(members), TeamPace(members)), 4),
     drivers |-> Map(members, LAMBDA d : d.driver_name),
     total_laps |-> Sum(Map(members, LAMBDA d : d.total_laps))]

\* team_scores[team_name]
TeamScore(team_name, members) ==
    [team_name |-> team_name,
     team_color |-> IF Truthy(members[1].team_color) THEN members[1].team_color ELSE "#888888",
     pace_score |-> TeamPace(members),
     team_average |-> QDivInt(SumPace(members), Len(members)),
     driver_gap |-> QSub(MaxPace(members), TeamPace(members)),
     drivers |-> Map(members, LAMBDA d : d.driver_name),
     total_laps |-> Sum(Map(members, LAMBDA d : d.total_laps))]

\* (mutant) the drivers are grouped without the test `if team_name:`
calculate_team_pace_scores_with_teamless(driver_scores) ==
    LET names == Keys(driver_scores, LAMBDA d : d.team_name)
    IN  [i \in DOMAIN names |->
            TeamScore(names[i], SelectSeq(driver_scores, LAMBDA d : d.team_name = names[i]))]

\* calculate_team_pace_scores: the values of team_scores in insertion order
calculate_team_pace_scores(driver_scores) ==
    LET teamed == SelectSeq(driver_scores, LAMBDA d : Truthy(d.team_name))
        names == Keys(teamed, LAMBDA d : d.team_name)
    IN  [i \in DOMAIN names |->
            TeamScore(names[i], SelectSeq(teamed, LAMBDA d : d.team_name = names[i]))]

\* (mutant) the gap is taken to the entry before, not to the leader
AddPositionAndGap_to_previous(ranked) ==
    [i \in DOMAIN ranked |->
        ranked[i] @@
        [position |-> i,
         gap_to_leader |-> QSub(ranked[i].pace_score,
                                ranked[IF i = 1 THEN 1 ELSE i - 1].pace_score)]]

\* position = i + 1 and gap_to_leader = pace_score - leader_pace for a list
\* sorted by pace_score
AddPositionAndGap(ranked) ==
    [i \in DOMAIN ranked |->
        ranked[i] @@
        [position |-> i,
         gap_to_leader |-> QSub(ranked[i].pace_score, ranked[1].pace_score)]]

\* (mutant) a comparison that lets an entry pass the entries of equal pace
ByPaceScore_or_equal(a, b) == QLeq(a.pace_score, b.pace_score)

ByPaceScore(a, b) == QLess(a.pace_score, b.pace_score)

\* calculate_rankings from the driver scores on: the two sorted lists
RankScores(driver_scores) ==
    IF driver_scores = <<>>
    THEN [driver_rankings |-> <<>>, team_rankings |-> <<>>]
    ELSE [driver_rankings |-> AddPositionAndGap(StableSort(driver_scores, ByPaceScore)),
          team_rankings |->
             AddPositionAndGap(StableSort(calculate_team_pace_scores(driver_scores),
                                          ByPaceScore))]

\* calculate_rankings on the laps the query returned
calculate_rankings(all_laps) == RankScores(calculate_driver_pace_scores(all_laps))

-----------------------------------------------------------------------------
(* pace_analyzer: meeting breakdown *)

\* truthiness of an optional number (if normalized:, if sector_time:)
TruthyNum(o) == ~IsNone(o) /\ Val(o) # 0

\* the orders in which a query may return `rows` under ORDER BY key ASC
\* (Before(a, b): a's key is smaller): every arrangement in which no row
\* comes after one with a greater key
OrdersBy(rows, Before(_, _)) ==
    {q \in [1..Cardinality(rows) -> rows] :
        /\ \A i, j \in DOMAIN q : i # j => q[i] # q[j]
        /\ \A i, j \in DOMAIN q : i < j => ~Before(q[j], q[i])}

\* the element of s with the least F, the first of them
FirstIndexOf(s, F(_), v) == CHOOSE i \in DOMAIN s : F(s[i]) = v /\ \A j \in 1..(i - 1) : F(s[j]) # v

\* position = i + 1 and gap = pace - leader_pace for a list sorted by pace
AddPositionAndPaceGap(ranked) ==
    [i \in DOMAIN ranked |->
        ranked[i] @@ [position |-> i, gap |-> QSub(ranked[i].pace, ranked[1].pace)]]

ByPace(a, b) == QLess(a.pace, b.pace)

\* sorted_times[:max(3, len(sorted_times) // 10)]
breakdown_best_times(times) == Take(sorted(times), Max(3, Len(times) \div 10))

\* driver_paces of one meeting from the laps of the meeting
DriverPaces(mlaps) ==
    LET normalized == [i \in DOMAIN mlaps |->
                          mlaps[i] @@
                          [normalized_time |->
                              normalize_lap_time(mlaps[i].lap_duration, mlaps[i].compound,
                                                 mlaps[i].tire_age, mlaps[i].session_type,
                                                 mlaps[i].lap_number, DEFAULT_TOTAL_LAPS)]]
        timed == SelectSeq(normalized, LAMBDA l : TruthyNum(l.normalized_time))
        names == Keys(timed, LAMBDA l : l.driver_name)
        Entry(name) ==
            LET dlaps == SelectSeq(timed, LAMBDA l : l.driver_name = name)
                info == dlaps[Len(dlaps)]
            IN  [driver_name |-> name,
                 name_acronym |-> info.name_acronym,
                 team_name |-> info.team_name,
                 team_color |-> IF Truthy(info.team_color) THEN info.team_color ELSE "#888888",
                 pace |-> mean(breakdown_best_times(Map(dlaps, LAMBDA l : Val(l.normalized_time)))),
                 lap_count |-> Len(dlaps)]
    IN  AddPositionAndPaceGap(StableSort([i \in DOMAIN names |-> Entry(names[i])], ByPace))

\* get_meeting_breakdown on the meetings and the laps the queries returned
MeetingBreakdown(meeting_list, all_laps) ==
    [i \in DOMAIN meeting_list |->
        meeting_list[i] @@
        [driver_paces |->
            DriverPaces(SelectSeq(all_laps,
                                  LAMBDA l : l.meeting_key = meeting_list[i].meeting_key))]]

\* get_meeting_breakdown: the results the two queries allow (meetings come
\* ORDER BY date_start DESC)
get_meeting_breakdown ==
    {MeetingBreakdown(ms, all_laps) :
        ms \in OrdersBy(meetings, LAMBDA a, b : a.date_start > b.date_start),
        all_laps \in get_all_valid_laps}

-----------------------------------------------------------------------------
(* pace_analyzer: session-level analysis *)

\* compound names in the order of Python's string comparison
CompoundsAlphabetical == <<"HARD", "INTERMEDIATE", "MEDIUM", "SOFT", "UNKNOWN", "WET">>

\* (mutant) the session query without WHERE s.session_key = ?
SessionInfoRows_any_session(session_key) ==
    {[session_key |-> r.session_key, session_name |-> r.session_name,
      session_type |-> r.session_type, date_start |-> r.date_start,
      meeting_key |-> m.meeting_key, meeting_name |-> m.meeting_name] :
        r \in sessions, m \in {x \in meetings : \E s \in sessions : s.meeting_key = x.meeting_key}}

\* the session row JOINed with its meeting: the rows of the first query
SessionInfoRows(session_key) ==
    {[session_key |-> r.session_key, session_name |-> r.session_name,
      session_type |-> r.session_type, date_start |-> r.date_start,
      meeting_key |-> m.meeting_key, meeting_name |-> m.meeting_name] :
        r \in {x \in sessions : x.session_key = session_key},
        m \in {x \in meetings : \E r \in sessions :
                  r.session_key = session_key /\ r.meeting_key = x.meeting_key}}

\* the valid laps of one driver of the session JOINed with the driver row
SessionDriverLaps(session_key, d) ==
    IF <<session_key, d>> \notin Cells
          \/ ~\E r \in drivers : r.driver_number = d /\ r.session_key = session_key
    THEN <<>>
    ELSE LET driver == DriverRow(d, session_key)
             kept == SelectSeq(LapsOf(<<session_key, d>>), valid_lap)
         IN  [i \in DOMAIN kept |->
                [driver_number |-> kept[i].driver_number,
                 lap_number |-> kept[i].lap_number,
                 lap_duration |-> kept[i].lap_duration,
                 sector_1_duration |-> kept[i].sector_1_duration,
                 sector_2_duration |-> kept[i].sector_2_duration,
                 sector_3_duration |-> kept[i].sector_3_duration,
                 speed_trap |-> kept[i].speed_trap,
                 compound |-> kept[i].compound,
                 tire_age |-> kept[i].tire_age,
                 driver_name |-> driver.full_name,
                 team_name |-> driver.team_name,
                 team_color |-> driver.team_color,
                 name_acronym |-> driver.name_acronym]]

\* (mutant) the laps query without its WHERE l.session_key = ?
session_valid_laps_all_sessions(session_key) ==
    {Concat([d \in 1..MaxOf(DriverNumbers) |->
                Concat(Map(SetToSeq(SessionKeys), LAMBDA k : SessionDriverLaps(k, d)))])}

\* the laps query of get_session_pecking_order: the lists it can return.  Its
\* ORDER BY l.driver_number, l.lap_number is total within a session, so there
\* is one.
session_valid_laps(session_key) ==
    {Concat([d \in 1..MaxOf(DriverNumbers) |-> SessionDriverLaps(session_key, d)])}

\* the least truthy value of a sector (or speed) column over the laps, None
\* when there is none
BestTruthy(dlaps, Column(_)) ==
    LET values == {Val(Column(dlaps[i])) : i \in {i \in DOMAIN dlaps : TruthyNum(Column(dlaps[i]))}}
    IN  IF values = {} THEN None ELSE Some(CHOOSE v \in values : \A x \in values : v <= x)

\* driver_data[driver_name] after the loop over the laps
DriverData(driver_name, dlaps) ==
    LET timed == SelectSeq(dlaps, LAMBDA l : TruthyNum(l.normalized_time))
        times == Map(timed, LAMBDA l : Val(l.normalized_time))
        speeds == {Val(dlaps[i].speed_trap) : i \in {i \in DOMAIN dlaps : TruthyNum(dlaps[i].speed_trap)}}
    IN  [driver_name |-> driver_name,
         laps |-> dlaps,
         best_lap |-> IF timed = <<>> THEN None
                      ELSE Some(timed[FirstIndexOf(times, LAMBDA t : t, MinOf(times))]),
         best_sectors |-> << BestTruthy(dlaps, LAMBDA l : l.sector_1_duration),
                              BestTruthy(dlaps, LAMBDA l : l.sector_2_duration),
                              BestTruthy(dlaps, LAMBDA l : l.sector_3_duration) >>,
         compounds_used |-> {dlaps[i].compound : i \in {i \in DOMAIN dlaps : Truthy(dlaps[i].compound)}},
         max_speed |-> IF speeds = {} THEN None ELSE Some(MaxOf(speeds))]

\* driver_entry of a driver that has a best lap; compounds_used is the list of
\* a set, kept as the set (the order of its elements is not defined)
DriverEntry(data) ==
    LET best_lap == Val(data.best_lap)
    IN  [driver_name |-> data.driver_name,
         name_acronym |-> best_lap.name_acronym,
         team_name |-> best_lap.team_name,
         team_color |-> IF Truthy(best_lap.team_color) THEN best_lap.team_color ELSE "#888888",
         best_lap |-> Val(best_lap.lap_duration),
         normalized_time |-> Val(best_lap.normalized_time),
         sector_1 |-> data.best_sectors[1],
         sector_2 |-> data.best_sectors[2],
         sector_3 |-> data.best_sectors[3],
         compound |-> best_lap.compound,
         lap_count |-> Len(data.laps),
         max_speed |-> data.max_speed,
         compounds_used |-> data.compounds_used]

\* position = i + 1 and gap_to_leader = normalized_time - leader_time (every
\* entry has a truthy normalized_time: it comes from a best lap)
AddPositionAndTimeGap(ranked) ==
    [i \in DOMAIN ranked |->
        ranked[i] @@
        [position |-> i,
         gap_to_leader |-> ranked[i].normalized_time - ranked[1].normalized_time]]

ByNormalizedTime(a, b) == a.normalized_time < b.normalized_time

\* (mutant) a count that goes up for every lap on the compound, not once per
\* driver
TireSummary_counting_laps(datas) ==
    LET used == UNION {datas[i].compounds_used : i \in DOMAIN datas}
        list == SelectSeq(CompoundsAlphabetical, LAMBDA c : c \in used)
    IN  [i \in DOMAIN list |->
            [compound |-> list[i],
             driver_count |->
                 Sum([j \in DOMAIN datas |->
                         Len(SelectSeq(datas[j].laps, LAMBDA l : l.compound = list[i]))])]]

\* tire_summary_list: per compound the number of drivers that used it, sorted
\* by compound
TireSummary(datas) ==
    LET used == UNION {datas[i].compounds_used : i \in DOMAIN datas}
        list == SelectSeq(CompoundsAlphabetical, LAMBDA c : c \in used)
    IN  [i \in DOMAIN list |->
            [compound |-> list[i],
             driver_count |-> Cardinality({j \in DOMAIN datas : list[i] \in datas[j].compounds_used})]]

\* get_session_pecking_order on the rows the two queries returned
SessionPeckingOrder(info_rows, session_laps) ==
    IF info_rows = {} THEN [found |-> FALSE]
    ELSE LET session_info == CHOOSE r \in info_rows : TRUE
         IN  IF session_laps = <<>>
             THEN [found |-> TRUE, session |-> session_info, driver_rankings |-> <<>>,
                   tire_summary |-> <<>>, stats |-> [driver_count |-> 0, lap_count |-> 0]]
             ELSE LET total_laps == MaxOf({session_laps[i].lap_number : i \in DOMAIN session_laps})
                      normalized ==
                          [i \in DOMAIN session_laps |->
                              session_laps[i] @@
                              [normalized_time |->
                                  normalize_lap_time(session_laps[i].lap_duration,
                                                     session_laps[i].compound,
                                                     session_laps[i].tire_age,
                                                     session_info.session_type,
                                                     session_laps[i].lap_number, total_laps)]]
                      names == Keys(normalized, LAMBDA l : l.driver_name)
                      datas == [i \in DOMAIN names |->
                                   DriverData(names[i],
                                              SelectSeq(normalized,
                                                        LAMBDA l : l.driver_name = names[i]))]
                      entries == Map(SelectSeq(datas, LAMBDA d : ~IsNone(d.best_lap)), DriverEntry)
                      driver_rankings == AddPositionAndTimeGap(StableSort(entries, ByNormalizedTime))
                  IN  [found |-> TRUE, session |-> session_info,
                       driver_rankings |-> driver_rankings,
                       tire_summary |-> TireSummary(datas),
                       stats |-> [driver_count |-> Len(driver_rankings),
                                  lap_count |-> Len(session_laps)]]

\* get_session_pecking_order(session_key): the results its queries allow
get_session_pecking_order(session_key) ==
    {SessionPeckingOrder(SessionInfoRows(session_key), session_laps) :
        session_laps \in session_valid_laps(session_key)}

-----------------------------------------------------------------------------
(* pace_analyzer: meeting-level analysis *)

\* session_summaries, from the sessions in order and the data of each
\* (mutant) the preview is the whole ranking, without the slice [:3]
SessionSummaries_whole_ranking(session_list, session_data) ==
    LET shown == SelectSeq(session_list, LAMBDA x :
                     /\ session_data[x.session_key].found
                     /\ session_data[x.session_key].driver_rankings # <<>>)
    IN  [i \in DOMAIN shown |->
            LET data == session_data[shown[i].session_key]
            IN  [session_key |-> shown[i].session_key,
                 session_name |-> shown[i].session_name,
                 session_type |-> shown[i].session_type,
                 top_3 |-> data.driver_rankings,
                 driver_count |-> data.stats.driver_count,
                 lap_count |-> data.stats.lap_count]]

SessionSummaries(session_list, session_data) ==
    LET shown == SelectSeq(session_list, LAMBDA x :
                     /\ session_data[x.session_key].found
                     /\ session_data[x.session_key].driver_rankings # <<>>)
    IN  [i \in DOMAIN shown |->
            LET data == session_data[shown[i].session_key]
            IN  [session_key |-> shown[i].session_key,
                 session_name |-> shown[i].session_name,
                 session_type |-> shown[i].session_type,
                 top_3 |-> Take(data.driver_rankings, 3),
                 driver_count |-> data.stats.driver_count,
                 lap_count |-> data.stats.lap_count]]

\* overall_rankings before sorting: per driver, in the order the drivers first
\* appear over the sessions, the weighted average of the session times
OverallRankings(session_list, session_data) ==
    LET shown == SelectSeq(session_list, LAMBDA x :
                     /\ session_data[x.session_key].found
                     /\ session_data[x.session_key].driver_rankings # <<>>)
        all_times ==
            Concat([i \in DOMAIN shown |->
                      Map(session_data[shown[i].session_key].driver_rankings,
                          LAMBDA d : d @@ [session_type |-> shown[i].session_type])])
        names == Keys(all_times, LAMBDA t : t.driver_name)
        Entry(name) ==
            LET times == SelectSeq(all_times, LAMBDA t : t.driver_name = name)
                info == times[Len(times)]
                total_weight == Sum(Map(times, LAMBDA t : SessionWeight(t.session_type)))
            IN  [driver_name |-> name,
                 name_acronym |-> info.name_acronym,
                 team_name |-> info.team_name,
                 team_color |-> info.team_color,
                 pace |-> IF total_weight > 0
                          THEN Q(Sum(Map(times, LAMBDA t :
                                       t.normalized_time * SessionWeight(t.session_type))),
                                 total_weight)
                          ELSE QZero,
                 session_count |-> Len(times)]
    IN  [i \in DOMAIN names |-> Entry(names[i])]

\* get_meeting_pecking_order on the rows its queries returned and the data
\* get_session_pecking_order returned for each session
MeetingPeckingOrder(meeting_rows, session_list, session_data) ==
    IF meeting_rows = {} THEN [found |-> FALSE]
    ELSE [found |-> TRUE,
          meeting |-> CHOOSE r \in meeting_rows : TRUE,
          overall_rankings |->
              AddPositionAndPaceGap(StableSort(OverallRankings(session_list, session_data),
                                               ByPace)),
          session_summaries |-> SessionSummaries(session_list, session_data),
          sessions |-> session_list]

\* get_meeting_pecking_order(meeting_key): the results its queries allow (the
\* sessions come ORDER BY date_start ASC)
get_meeting_pecking_order(meeting_key) ==
    LET of_meeting == {r \in sessions : r.meeting_key = meeting_key}
        keys == {r.session_key : r \in of_meeting}
        answers == {<<k, get_session_pecking_order(k)>> : k \in keys}
        AnswersOf(k) == (CHOOSE p \in answers : p[1] = k)[2]
    IN  {MeetingPeckingOrder({r \in meetings : r.meeting_key = meeting_key},
                             session_list, session_data) :
            session_list \in OrdersBy(of_meeting, LAMBDA a, b : a.date_start < b.date_start),
            session_data \in {f \in [keys -> UNION {p[2] : p \in answers}] :
                                 \A k \in keys : f[k] \in AnswersOf(k)}}

-----------------------------------------------------------------------------
(* The requests of the presentation layer (app.py) *)

\* a key that is in no table
MissingKey == 99

\* the presentation layer asks when the last response has been delivered, or
\* asks the same again (a page reload)
MayAsk(request) == response.request \in {NoResponse.request, request}

\* calculate_rankings()
CalculateRankings ==
    /\ MayAsk(<<"rankings">>)
    /\ \E all_laps \in get_all_valid_laps :
          response' = [kind |-> "rankings", request |-> <<"rankings">>,
                       reloaded |-> response.request = <<"rankings">>]
                          @@ calculate_rankings(all_laps)
    /\ UNCHANGED <<tables, laps, nvars, cvars, mvars>>

\* calculate_driver_pace_scores()
CalculateDriverPaceScores ==
    /\ MayAsk(<<"driver_scores">>)
    /\ \E all_laps \in get_all_valid_laps :
          response' = [kind |-> "driver_scores", request |-> <<"driver_scores">>,
                       reloaded |-> response.request = <<"driver_scores">>,
                       driver_scores |-> calculate_driver_pace_scores(all_laps)]
    /\ UNCHANGED <<tables, laps, nvars, cvars, mvars>>

\* get_meeting_breakdown()
GetMeetingBreakdown ==
    /\ MayAsk(<<"breakdown">>)
    /\ \E result \in get_meeting_breakdown :
          response' = [kind |-> "breakdown", request |-> <<"breakdown">>,
                       reloaded |-> response.request = <<"breakdown">>,
                       meetings |-> result]
    /\ UNCHANGED <<tables, laps, nvars, cvars, mvars>>

\* get_session_pecking_order(session_key)
GetSessionPeckingOrder ==
    /\ \E session_key \in SessionKeys \cup {MissingKey} :
          /\ MayAsk(<<"session", session_key>>)
          /\ \E result \in get_session_pecking_order(session_key) :
                response' = [kind |-> "session", request |-> <<"session", session_key>>,
                       reloaded |-> response.request = <<"session", session_key>>,
                             result |-> result]
    /\ UNCHANGED <<tables, laps, nvars, cvars, mvars>>

\* get_meeting_pecking_order(meeting_key)
GetMeetingPeckingOrder ==
    /\ \E meeting_key \in MeetingKeys \cup {MissingKey} :
          /\ MayAsk(<<"meeting", meeting_key>>)
          /\ \E result \in get_meeting_pecking_order(meeting_key) :
                response' = [kind |-> "meeting", request |-> <<"meeting", meeting_key>>,
                       reloaded |-> response.request = <<"meeting", meeting_key>>,
                             result |-> result]
    /\ UNCHANGED <<tables, laps, nvars, cvars, mvars>>

-----------------------------------------------------------------------------
(* The normaliser under test: one call, then a second call that differs  *)
(* from the first in exactly one argument.                                 *)

\* Bounds of the harness
MaxEarlyLap == 2

MaxTireAge == 2

\* the first lap at which lap_number * FUEL_CONSUMPTION_PER_LAP reaches the
\* starting load (62 for a Race, 21 for a Sprint)
EmptyLap(startUnits) ==
    CHOOSE n \in 1..startUnits :
        /\ n * FUEL_CONSUMPTION_PER_LAP >= startUnits
        /\ (n - 1) * FUEL_CONSUMPTION_PER_LAP < startUnits

RaceEmptyLap == EmptyLap(RACE_START_FUEL_LOAD_KG * FuelUnitsPerKg)

SprintEmptyLap == EmptyLap((RACE_START_FUEL_LOAD_KG * FuelUnitsPerKg) \div 3)

LapNumbers ==
    (1..MaxEarlyLap)
        \cup {SprintEmptyLap - 1, SprintEmptyLap}
        \cup {DEFAULT_TOTAL_LAPS, RaceEmptyLap - 1, RaceEmptyLap}

RawLapTimes == {None, Some(Ticks(90)), Some(Ticks(127) + 7000)}

Compounds == {"SOFT", "MEDIUM", "HARD", "UNKNOWN", NoneStr}

TireAges == {None} \cup {Some(a) : a \in 0..MaxTireAge}

SessionTypes ==
    {"Practice 1", "Sprint Shootout", "Sprint Qualifying", "Qualifying",
     "Sprint", "Race", NoneStr}

NormArgs ==
    [raw_lap_time : RawLapTimes, compound : Compounds, tire_age : TireAges,
     session_type : SessionTypes, lap_number : LapNumbers, total_laps : LapNumbers]

NoCall == [made |-> FALSE]

\* the arguments held while the normaliser is not under test
UnusedArgs == CHOOSE a \in NormArgs : TRUE

Call(a) ==
    [made |-> TRUE, args |-> a,
     ret |-> normalize_lap_time(a.raw_lap_time, a.compound, a.tire_age,
                                a.session_type, a.lap_number, a.total_laps)]

NormInit ==
    /\ StoreInit
    /\ n_args \in NormArgs
    /\ n_first = NoCall
    /\ n_second = NoCall

NormalizeFirst ==
    /\ ~n_first.made
    /\ n_first' = Call(n_args)
    /\ UNCHANGED <<svars, cvars, mvars, n_args, n_second>>

NormalizeOtherCompound ==
    /\ n_first.made /\ ~n_second.made
    /\ \E c \in Compounds \ {n_args.compound} :
          n_second' = Call([n_args EXCEPT !.compound = c])
    /\ UNCHANGED <<svars, cvars, mvars, n_args, n_first>>

NormalizeOtherTireAge ==
    /\ n_first.made /\ ~n_second.made
    /\ \E a \in TireAges \ {n_args.tire_age} :
          n_second' = Call([n_args EXCEPT !.tire_age = a])
    /\ UNCHANGED <<svars, cvars, mvars, n_args, n_first>>

NormalizeOtherLap ==
    /\ n_first.made /\ ~n_second.made
    /\ \E l \in LapNumbers \ {n_args.lap_number} :
          n_second' = Call([n_args EXCEPT !.lap_number = l])
    /\ UNCHANGED <<svars, cvars, mvars, n_args, n_first>>

NormalizeOtherTotalLaps ==
    /\ n_first.made /\ ~n_second.made
    /\ \E t \in LapNumbers \ {n_args.total_laps} :
          n_second' = Call([n_args EXCEPT !.total_laps = t])
    /\ UNCHANGED <<svars, cvars, mvars, n_args, n_first>>

NormNext ==
    \/ NormalizeFirst
    \/ NormalizeOtherCompound
    \/ NormalizeOtherTireAge
    \/ NormalizeOtherLap
    \/ NormalizeOtherTotalLaps

NormSpec == NormInit /\ [][NormNext]_vars

-----------------------------------------------------------------------------
(* Claims about normalize_lap_time, checked under NormSpec *)

NormCalls == {c \in {n_first, n_second} : c.made}

\* the two calls were made and their arguments agree everywhere but in `field`
DifferOnlyIn(field) ==
    /\ n_first.made /\ n_second.made
    /\ n_first.args[field] # n_second.args[field]
    /\ \A f \in DOMAIN n_first.args \ {field} : n_first.args[f] = n_second.args[f]

\* C1: normalize_lap_time with raw_lap_time = None returns None, whatever the
\* compound, tire age, session type, lap number and total laps are.
C1_NoneRawTimeGivesNone ==
    \A c \in NormCalls : IsNone(c.args.raw_lap_time) => IsNone(c.ret)

C1_Witness ==
    /\ n_first.made /\ IsNone(n_first.args.raw_lap_time) /\ IsNone(n_first.ret)
    /\ n_first.args.compound = "SOFT" /\ n_first.args.session_type = "Race"
    /\ n_first.args.tire_age = Some(2)
    /\ n_second.made /\ n_second.args.lap_number = RaceEmptyLap

\* C2 as stated: a MEDIUM lap of tire age 0 whose session type is not Race,
\* not Sprint and not Qualifying is returned unchanged.
C2_Original ==
    \A c \in NormCalls :
        /\ ~IsNone(c.args.raw_lap_time)
        /\ c.args.compound = "MEDIUM"
        /\ c.args.tire_age = Some(0)
        /\ c.args.session_type \notin {"Race", "Sprint", "Qualifying"}
        => c.ret = c.args.raw_lap_time

\* C2 (amended): a MEDIUM lap of tire age 0 whose session type is none of Race,
\* Sprint, Qualifying and Sprint Qualifying is returned unchanged, at every
\* lap number.
C2_MediumFreshPracticeUnchanged ==
    \A c \in NormCalls :
        /\ ~IsNone(c.args.raw_lap_time)
        /\ c.args.compound = "MEDIUM"
        /\ c.args.tire_age = Some(0)
        /\ c.args.session_type \notin {"Race", "Sprint", "Qualifying", "Sprint Qualifying"}
        => c.ret = c.args.raw_lap_time

C2_Witness ==
    /\ DifferOnlyIn("lap_number")
    /\ n_first.args.compound = "MEDIUM" /\ n_first.args.tire_age = Some(0)
    /\ n_first.args.session_type = "Sprint Shootout"
    /\ n_first.args.lap_number = 1 /\ n_second.args.lap_number = RaceEmptyLap
    /\ n_first.ret = Some(Ticks(90)) /\ n_second.ret = Some(Ticks(90))

\* the signed difference ret(a) - ret(b) of two calls with defined results
RetDiff(a, b) == Val(a.ret) - Val(b.ret)

\* C3: two laps that differ only in the compound, with a raw time: SOFT comes
\* out exactly 1.0 s above HARD, being 0.5 s above MEDIUM while HARD is 0.5 s
\* below MEDIUM.
C3_SoftMinusHardIsOneSecond ==
    DifferOnlyIn("compound") /\ ~IsNone(n_first.args.raw_lap_time) =>
        LET a == n_first.args.compound
            b == n_second.args.compound
        IN  /\ (a = "SOFT" /\ b = "HARD") => RetDiff(n_first, n_second) = Ticks(1)
            /\ (a = "HARD" /\ b = "SOFT") => RetDiff(n_second, n_first) = Ticks(1)
            /\ (a = "SOFT" /\ b = "MEDIUM") => RetDiff(n_first, n_second) = Ticks(1) \div 2
            /\ (a = "MEDIUM" /\ b = "HARD") => RetDiff(n_first, n_second) = Ticks(1) \div 2

C3_Witness ==
    /\ DifferOnlyIn("compound")
    /\ n_first.args.compound = "SOFT" /\ n_second.args.compound = "HARD"
    /\ n_first.args.session_type = "Race" /\ n_first.args.tire_age = Some(1)
    /\ n_first.args.raw_lap_time = Some(Ticks(90))
    /\ RetDiff(n_first, n_second) = Ticks(1)

\* C4: two laps with a raw time that differ only in the tire age, both ages
\* known and non-negative: the lap with the larger age has the strictly
\* smaller normalised time.
C4_TireAgeStrictlyDecreasing ==
    /\ DifferOnlyIn("tire_age")
    /\ ~IsNone(n_first.args.raw_lap_time)
    /\ ~IsNone(n_first.args.tire_age) /\ ~IsNone(n_second.args.tire_age)
    => LET a == Val(n_first.args.tire_age)
           b == Val(n_second.args.tire_age)
       IN  /\ a < b => Val(n_second.ret) < Val(n_first.ret)
           /\ b < a => Val(n_first.ret) < Val(n_second.ret)

C4_Witness ==
    /\ DifferOnlyIn("tire_age")
    /\ n_first.args.tire_age = Some(0) /\ n_second.args.tire_age = Some(1)
    /\ n_first.args.raw_lap_time = Some(Ticks(90))
    /\ n_first.args.compound = "HARD" /\ n_first.args.session_type = "Qualifying"
    /\ Val(n_second.ret) < Val(n_first.ret)

\* a Race lap at lap_number = 1 followed by the same lap at
\* lap_number = total_laps
RaceFirstAndLastLap ==
    /\ DifferOnlyIn("lap_number")
    /\ ~IsNone(n_first.args.raw_lap_time)
    /\ n_first.args.session_type = "Race"
    /\ n_first.args.lap_number = 1
    /\ n_second.args.lap_number = n_second.args.total_laps

\* FUEL_CONSUMPTION_PER_LAP * laps * FUEL_EFFECT_PER_KG, in ticks
BurnEffect(nLaps) == FuelEffect(FUEL_CONSUMPTION_PER_LAP * nLaps)

\* C5 as stated: for every total_laps the lap-1 result is below the
\* lap-total_laps result by exactly the effect of (total_laps - 1) laps of fuel.
C5_Original ==
    RaceFirstAndLastLap =>
        RetDiff(n_second, n_first) = BurnEffect(n_first.args.total_laps - 1)

\* C5 (amended): the lap-1 result is below the lap-total_laps result by the
\* effect of (total_laps - 1) laps of fuel as long as total_laps laps burn no
\* more than the starting load (total_laps <= 61); beyond that the estimate is
\* clamped at an empty tank and the difference stays at the effect of the
\* starting load less one lap of fuel.
C5_RaceFuelDifference ==
    RaceFirstAndLastLap =>
        LET T == n_first.args.total_laps
            start == RACE_START_FUEL_LOAD_KG * FuelUnitsPerKg
        IN  /\ RetDiff(n_second, n_first) >= 0
            /\ T * FUEL_CONSUMPTION_PER_LAP <= start
                  => RetDiff(n_second, n_first) = BurnEffect(T - 1)
            /\ T * FUEL_CONSUMPTION_PER_LAP > start
                  => RetDiff(n_second, n_first)
                        = FuelEffect(start - FUEL_CONSUMPTION_PER_LAP)

C5_Witness ==
    /\ RaceFirstAndLastLap
    /\ n_first.args.total_laps = RaceEmptyLap - 1
    /\ n_first.args.compound = "SOFT" /\ n_first.args.tire_age = Some(2)
    /\ RetDiff(n_second, n_first) = BurnEffect(RaceEmptyLap - 2)
    /\ RetDiff(n_second, n_first) > 0

\* C19: for the session types Qualifying and Sprint Qualifying the fuel
\* adjustment is the constant (QUALI_FUEL_LOAD_KG - 50) * FUEL_EFFECT_PER_KG
\* subtracted from the time, 1.485 s added, so two laps that differ only in
\* lap_number have the same normalized time
C19_QualiFuelAdjustmentIsConstant ==
    /\ \A c \in NormCalls :
          ( /\ c.args.session_type \in {"Qualifying", "Sprint Qualifying"}
            /\ ~IsNone(c.args.raw_lap_time) )
             => /\ fuel_adjustment(c.args.session_type, c.args.lap_number)
                      = -(Ticks(1485) \div 1000)
                /\ (c.args.compound = "MEDIUM" /\ c.args.tire_age \in {None, Some(0)})
                      => Val(c.ret) = Val(c.args.raw_lap_time) + Ticks(1485) \div 1000
    /\ ( /\ DifferOnlyIn("lap_number")
         /\ n_first.args.session_type \in {"Qualifying", "Sprint Qualifying"} )
          => n_first.ret = n_second.ret

\* two Sprint Qualifying laps on worn SOFT tyres, one of them late in the
\* session, with the same normalized time
C19_Witness ==
    /\ DifferOnlyIn("lap_number")
    /\ n_first.args.session_type = "Sprint Qualifying"
    /\ n_first.args.compound = "SOFT" /\ n_first.args.tire_age = Some(2)
    /\ n_second.args.lap_number > MaxEarlyLap
    /\ ~IsNone(n_first.ret) /\ n_first.ret = n_second.ret

\* C20: a lap whose compound is unknown (None or a string that is not in the
\* compound table) is normalized exactly like the same lap on HARD, 0.5 s
\* below the same lap on MEDIUM
C20_UnknownCompoundIsHard ==
    LET unknown == Compounds \ DOMAIN TIRE_COMPOUND_DELTAS
    IN  ( /\ DifferOnlyIn("compound")
          /\ n_second.args.compound \in unknown
          /\ ~IsNone(n_first.args.raw_lap_time) )
           => /\ n_first.args.compound = "HARD" => n_first.ret = n_second.ret
              /\ n_first.args.compound \in unknown => n_first.ret = n_second.ret
              /\ n_first.args.compound = "MEDIUM"
                    => RetDiff(n_first, n_second) = Ticks(1) \div 2

\* a lap on HARD and the same lap without a compound, with equal results
C20_Witness ==
    /\ DifferOnlyIn("compound")
    /\ n_first.args.compound = "HARD" /\ n_second.args.compound = NoneStr
    /\ ~IsNone(n_first.ret) /\ n_first.ret = n_second.ret

\* the starting load of a Race or Sprint, in fuel units
StartFuel(session_type) ==
    IF session_type = "Race" THEN RACE_START_FUEL_LOAD_KG * FuelUnitsPerKg
    ELSE (RACE_START_FUEL_LOAD_KG * FuelUnitsPerKg) \div 3

\* the call is of a Race or Sprint lap at which the fuel burned is at least
\* the starting load
TankEmpty(c) ==
    /\ c.args.session_type \in {"Race", "Sprint"}
    /\ c.args.lap_number * FUEL_CONSUMPTION_PER_LAP >= StartFuel(c.args.session_type)

\* C21: the estimated current fuel of a Race or Sprint lap is never negative;
\* at every lap_number at which the fuel burned is at least the starting load
\* (RACE_START_FUEL_LOAD_KG, a third of it for a Sprint) the fuel adjustment is
\* the constant -50 * FUEL_EFFECT_PER_KG subtracted, 1.65 s added, and no
\* longer depends on lap_number
C21_EmptyTankAdjustmentIsConstant ==
    /\ \A c \in NormCalls :
          c.args.session_type \in {"Race", "Sprint"}
             => current_fuel(StartFuel(c.args.session_type), c.args.lap_number) >= 0
    /\ \A c \in NormCalls :
          (TankEmpty(c) /\ ~IsNone(c.args.raw_lap_time))
             => /\ fuel_adjustment(c.args.session_type, c.args.lap_number)
                      = -(Ticks(165) \div 100)
                /\ (c.args.compound = "MEDIUM" /\ c.args.tire_age \in {None, Some(0)})
                      => Val(c.ret) = Val(c.args.raw_lap_time) + Ticks(165) \div 100
    /\ (DifferOnlyIn("lap_number") /\ TankEmpty(n_first) /\ TankEmpty(n_second))
          => n_first.ret = n_second.ret

\* two Sprint laps, the one at which the tank runs empty and a later one, with
\* the same normalized time
C21_Witness ==
    /\ DifferOnlyIn("lap_number")
    /\ n_first.args.session_type = "Sprint"
    /\ n_first.args.lap_number = SprintEmptyLap
    /\ n_second.args.lap_number > SprintEmptyLap
    /\ ~IsNone(n_first.ret) /\ n_first.ret = n_second.ret

-----------------------------------------------------------------------------
(* The ranking service *)

\* the response is delivered to the browser
Respond ==
    /\ response # NoResponse
    /\ response' = NoResponse
    /\ UNCHANGED <<tables, laps, nvars, cvars, mvars>>

Init ==
    /\ StoreInit
    /\ n_args = UnusedArgs
    /\ n_first = NoCall
    /\ n_second = NoCall

Next ==
    \/ SaveLaps
    \/ CalculateRankings
    \/ CalculateDriverPaceScores
    \/ GetMeetingBreakdown
    \/ GetSessionPeckingOrder
    \/ GetMeetingPeckingOrder
    \/ Respond

Spec == Init /\ [][Next]_vars

-----------------------------------------------------------------------------
(* Concurrent ranking requests: two invocations interleaved statement by
   statement over a store that no one writes. Every variable the ranking
   functions assign is a local of the call, so each invocation has a frame of
   its own. *)

\* the deliveries that may have been stored before the requests start
ConcDeliveries ==
    {<<11, 1, StintExample>>, <<11, 2, StintFast>>, <<11, 3, StintSingle>>,
     <<11, 4, StintTwo>>, <<12, 1, StintRace>>, <<12, 2, StintRaceShort>>}

StoreOf(delivered) ==
    [c \in Cells |->
        IF \E dl \in delivered : <<dl[1], dl[2]>> = c
        THEN LET dl == CHOOSE x \in delivered : <<x[1], x[2]>> = c
             IN  Upsert(<<>>, [n \in DOMAIN dl[3] |-> LapRow(dl[1], dl[2], n, dl[3][n])])
        ELSE <<>>]

ConcRequests == {<<"rankings">>, <<"session", 11>>, <<"session", 12>>, <<"meeting", 1>>}

\* a frame shared by every invocation, as module-level variables would be
Slot_shared(p) == 1

\* where the locals of invocation p live: in the frame of its own call
Slot(p) == p

Frame(p) == frames[Slot(p)]

Running(p) == calls[p].pc \notin {"idle", "done"}

SetCall(p, pc, result) ==
    calls' = [calls EXCEPT ![p].pc = pc, ![p].result = result]

\* a request arrives and the function is entered with fresh locals
Invoke(p) ==
    /\ calls[p].pc = "idle"
    /\ \E request \in ConcRequests :
          calls' = [q \in Invocations |->
                       IF q = p
                       THEN [pc |-> "fetch", request |-> request, result |-> None,
                             overlapped |-> \E o \in Invocations \ {p} : Running(o)]
                       ELSE IF Running(q) THEN [calls[q] EXCEPT !.overlapped = TRUE]
                       ELSE calls[q]]
    /\ frames' = [frames EXCEPT ![Slot(p)] = EmptyFrame]
    /\ UNCHANGED <<svars, nvars, mvars>>

\* calculate_driver_pace_scores: all_laps = get_all_valid_laps()
RankingsFetch(p) ==
    /\ calls[p].pc = "fetch" /\ calls[p].request = <<"rankings">>
    /\ \E all_laps \in get_all_valid_laps :
          frames' = [frames EXCEPT ![Slot(p)].all_laps = all_laps]
    /\ SetCall(p, "score", None)
    /\ UNCHANGED <<svars, nvars, mvars>>

\* calculate_driver_pace_scores: the loops that fill driver_laps and driver_scores
RankingsScore(p) ==
    /\ calls[p].pc = "score"
    /\ frames' = [frames EXCEPT ![Slot(p)].driver_scores =
                                   calculate_driver_pace_scores(Frame(p).all_laps)]
    /\ SetCall(p, "rank", None)
    /\ UNCHANGED <<svars, nvars, mvars>>

\* calculate_rankings: team scores, the two sorts, positions and gaps
RankingsRank(p) ==
    /\ calls[p].pc = "rank"
    /\ SetCall(p, "done", Some(RankScores(Frame(p).driver_scores)))
    /\ UNCHANGED <<svars, nvars, mvars, frames>>

\* get_session_pecking_order: the session query and the laps query
SessionFetch(p) ==
    /\ calls[p].pc = "fetch" /\ calls[p].request[1] = "session"
    /\ \E session_laps \in session_valid_laps(calls[p].request[2]) :
          frames' = [frames EXCEPT ![Slot(p)].info_rows = SessionInfoRows(calls[p].request[2]),
                                   ![Slot(p)].session_laps = session_laps]
    /\ SetCall(p, "build", None)
    /\ UNCHANGED <<svars, nvars, mvars>>

\* get_session_pecking_order: driver_data, rankings and tire_summary
SessionBuild(p) ==
    /\ calls[p].pc = "build"
    /\ SetCall(p, "done", Some(SessionPeckingOrder(Frame(p).info_rows, Frame(p).session_laps)))
    /\ UNCHANGED <<svars, nvars, mvars, frames>>

\* get_meeting_pecking_order: the meeting query and the sessions query
MeetingFetch(p) ==
    /\ calls[p].pc = "fetch" /\ calls[p].request[1] = "meeting"
    /\ \E session_list \in OrdersBy({r \in sessions : r.meeting_key = calls[p].request[2]},
                                    LAMBDA a, b : a.date_start < b.date_start) :
          frames' = [frames EXCEPT
                        ![Slot(p)].meeting_rows =
                            {r \in meetings : r.meeting_key = calls[p].request[2]},
                        ![Slot(p)].session_list = session_list]
    /\ SetCall(p, "sessions", None)
    /\ UNCHANGED <<svars, nvars, mvars>>

\* get_meeting_pecking_order: one turn of the loop over the sessions, a call
\* of get_session_pecking_order
MeetingSession(p) ==
    /\ calls[p].pc = "sessions"
    /\ Len(Frame(p).session_data) < Len(Frame(p).session_list)
    /\ \E data \in get_session_pecking_order(
                      Frame(p).session_list[Len(Frame(p).session_data) + 1].session_key) :
          frames' = [frames EXCEPT ![Slot(p)].session_data = Append(@, data)]
    /\ UNCHANGED <<svars, nvars, mvars, calls>>

\* get_meeting_pecking_order: the overall rankings after the loop
MeetingFinish(p) ==
    /\ calls[p].pc = "sessions"
    /\ Len(Frame(p).session_data) = Len(Frame(p).session_list)
    /\ LET session_list == Frame(p).session_list
           session_data ==
               [k \in {session_list[i].session_key : i \in DOMAIN session_list} |->
                   Frame(p).session_data[CHOOSE i \in DOMAIN session_list :
                                            session_list[i].session_key = k]]
       IN  SetCall(p, "done",
                   Some(MeetingPeckingOrder(Frame(p).meeting_rows, session_list, session_data)))
    /\ UNCHANGED <<svars, nvars, mvars, frames>>

\* the result is handed to the caller and the locals of the call are gone
Return(p) ==
    /\ calls[p].pc = "done"
    /\ calls' = [calls EXCEPT ![p] = Idle]
    /\ frames' = [frames EXCEPT ![Slot(p)] = EmptyFrame]
    /\ UNCHANGED <<svars, nvars, mvars>>

ConcInit ==
    /\ meetings = MeetingRows
    /\ sessions = SessionRows
    /\ drivers = DriverRows
    /\ laps \in {StoreOf(delivered) : delivered \in SUBSET ConcDeliveries}
    /\ response = NoResponse
    /\ NoCalls
    /\ NoMarking
    /\ n_args = UnusedArgs
    /\ n_first = NoCall
    /\ n_second = NoCall

ConcNext ==
    \E p \in Invocations :
        \/ Invoke(p)
        \/ RankingsFetch(p)
        \/ RankingsScore(p)
        \/ RankingsRank(p)
        \/ SessionFetch(p)
        \/ SessionBuild(p)
        \/ MeetingFetch(p)
        \/ MeetingSession(p)
        \/ MeetingFinish(p)
        \/ Return(p)

ConcSpec == ConcInit /\ [][ConcNext]_vars

-----------------------------------------------------------------------------
(* The collector marks the laps of a session (fetch_recent_data calls
   mark_invalid_laps on the laps of one session before it stores them) *)

\* the longest lap list
MaxMarkedLaps == 3

\* durations in seconds: none, 0.0, below the minimum, the minimum, two laps
\* 6.25% apart, a slow lap within the maximum, and one above the maximum
CollectedDurations ==
    {None, Some(0), Some(Ticks(50)), Some(Ticks(MIN_VALID_LAP_TIME)), Some(Ticks(80)),
     Some(Ticks(85)), Some(Ticks(170)), Some(Ticks(200))}

CollectedLaps == {CollectedLap(d, p) : d \in CollectedDurations, p \in BOOLEAN}

CollectedLists == UNION {[1..n -> CollectedLaps] : n \in 0..MaxMarkedLaps}

MarkedSessionTypes == {"Practice 1", "Qualifying", "Sprint Qualifying"}

\* laps = mark_invalid_laps(laps, session_type)
MarkInvalidLaps ==
    /\ marking.pc = "collected"
    /\ marking' = [marking EXCEPT !.laps = mark_invalid_laps(@, marking.session_type),
                                  !.pc = "marked"]
    /\ UNCHANGED <<svars, nvars, cvars>>

MarkInit ==
    /\ meetings = MeetingRows
    /\ sessions = SessionRows
    /\ drivers = DriverRows
    /\ laps = [c \in Cells |-> <<>>]
    /\ response = NoResponse
    /\ NoCalls
    /\ marking \in [session_type : MarkedSessionTypes, laps : CollectedLists,
                    pc : {"collected"}]
    /\ n_args = UnusedArgs
    /\ n_first = NoCall
    /\ n_second = NoCall

MarkNext == MarkInvalidLaps

MarkSpec == MarkInit /\ [][MarkNext]_vars

-----------------------------------------------------------------------------
(* Claims about the ranking service *)

\* the ranked entities of a list with their positions and gaps
RankedBy(list, Name(_), Gap(_)) ==
    [i \in DOMAIN list |-> <<Name(list[i]), list[i].position, Gap(list[i])>>]

\* the ordered output of a ranking response
RankedOutput(r) ==
    CASE r.kind = "rankings" ->
            << RankedBy(r.driver_rankings, LAMBDA e : e.driver_name, LAMBDA e : e.gap_to_leader),
               RankedBy(r.team_rankings, LAMBDA e : e.team_name, LAMBDA e : e.gap_to_leader) >>
      [] r.kind = "session" /\ r.result.found ->
            << RankedBy(r.result.driver_rankings, LAMBDA e : e.driver_name,
                        LAMBDA e : e.gap_to_leader) >>
      [] r.kind = "meeting" /\ r.result.found ->
            << RankedBy(r.result.overall_rankings, LAMBDA e : e.driver_name, LAMBDA e : e.gap) >>
      [] OTHER -> <<>>

LeaderGaps(gaps) ==
    /\ gaps # <<>> => gaps[1] = QZero
    /\ \A i \in DOMAIN gaps : QLeq(QZero, gaps[i])
    /\ \A i, j \in DOMAIN gaps : i < j => QLeq(gaps[i], gaps[j])

\* the ranked lists of a response, each as the list of its gaps
GapLists(r) ==
    CASE r.kind = "rankings" ->
            { Map(r.driver_rankings, LAMBDA e : e.gap_to_leader),
              Map(r.team_rankings, LAMBDA e : e.gap_to_leader) }
      [] r.kind = "session" /\ r.result.found ->
            { Map(r.result.driver_rankings, LAMBDA e : QInt(e.gap_to_leader)) }
      [] r.kind = "meeting" /\ r.result.found ->
            { Map(r.result.overall_rankings, LAMBDA e : e.gap) }
      [] r.kind = "breakdown" ->
            { Map(r.meetings[i].driver_paces, LAMBDA e : e.gap) : i \in DOMAIN r.meetings }
      [] OTHER -> {}

\* C7: leader invariant.  In every ranked list produced (driver rankings,
\* team rankings, session driver_rankings, meeting overall_rankings,
\* meeting-breakdown driver_paces) the gap of the first element is exactly 0,
\* every gap is >= 0 and the gaps are non-decreasing with position.
C7_LeaderInvariant == \A gaps \in GapLists(response) : LeaderGaps(gaps)

\* a ranking of three drivers and two teams with growing gaps
C7_Witness ==
    /\ response.kind = "rankings"
    /\ Len(response.driver_rankings) = 3
    /\ Len(response.team_rankings) = 2
    /\ QLess(QZero, response.driver_rankings[2].gap_to_leader)
    /\ QLess(response.driver_rankings[2].gap_to_leader,
             response.driver_rankings[3].gap_to_leader)
    /\ QLess(QZero, response.team_rankings[2].gap_to_leader)

\* the pace scores of the ranked drivers that a team lists
ListedPaces(r, team) ==
    {r.driver_rankings[i].pace_score :
        i \in {i \in DOMAIN r.driver_rankings :
                  r.driver_rankings[i].driver_name \in Range(team.drivers)}}

StoredTimes(driver_name, session_type) ==
    LET cells == {c \in JoinedCells :
                     /\ DriverRow(c[2], c[1]).full_name = driver_name
                     /\ SessionRow(c[1]).session_type = session_type}
        TimesIn(c) ==
            LET kept == SelectSeq(LapsOf(c), LAMBDA l :
                            l.is_valid_for_ranking /\ ~IsNone(l.lap_duration))
            IN  Map(kept, LAMBDA l :
                    Val(normalize_lap_time(l.lap_duration, l.compound, l.tire_age,
                                           session_type, l.lap_number,
                                           get_session_total_laps(c[1]))))
    IN  Concat(Map(SetToSeq(cells), TimesIn))

\* the sum of the k least of the times (k >= 1, at most their number): those
\* below the k-th least value, and that value for the rest
SumOfLeast(times, k) ==
    LET Below(v) == {i \in DOMAIN times : times[i] < v}
        UpTo(v) == {i \in DOMAIN times : times[i] <= v}
        kth == CHOOSE v \in Range(times) :
                  Cardinality(Below(v)) < k /\ k <= Cardinality(UpTo(v))
        below == SelectSeq(times, LAMBDA t : t < kth)
    IN  Sum(below) + (k - Len(below)) * kth

\* min(n, clamp(n // 10, 3, 20))
SliceSize(n) ==
    LET tenth == n \div 10
        clamped == IF tenth < 3 THEN 3 ELSE IF tenth > 20 THEN 20 ELSE tenth
    IN  IF n < clamped THEN n ELSE clamped

\* C9: within one session type with n normalized laps for a driver, the best
\* slice is the first min(n, clamp(n // 10, 3, 20)) times in ascending order
\* and average_pace is the mean of that slice; three Practice 1 MEDIUM age-0
\* laps of 90.0, 89.0 and 95.0 give a driver pace_score of 91.333...
C9_BestSliceAverage ==
    response.kind = "driver_scores" =>
        \A i \in DOMAIN response.driver_scores :
            LET score == response.driver_scores[i]
            IN  /\ \A j \in DOMAIN score.session_details :
                      LET detail == score.session_details[j]
                          times == StoredTimes(score.driver_name, detail.session_type)
                          k == SliceSize(Len(times))
                      IN  /\ detail.lap_count = Len(times)
                          /\ detail.average_pace = Q(SumOfLeast(times, k), k)
                /\ (/\ Len(score.session_details) = 1
                    /\ StoredTimes(score.driver_name, "Practice 1")
                          = <<Ticks(90), Ticks(89), Ticks(95)>>)
                      => score.pace_score = Q(Ticks(90) + Ticks(89) + Ticks(95), 3)

\* the scores of a driver with the three laps of the example, of a driver
\* with a single lap and of a driver with more than 200 laps in a session type
C9_Witness ==
    /\ response.kind = "driver_scores"
    /\ \E i, j, h \in DOMAIN response.driver_scores :
          /\ Len(response.driver_scores[i].session_details) = 1
          /\ StoredTimes(response.driver_scores[i].driver_name, "Practice 1")
                = <<Ticks(90), Ticks(89), Ticks(95)>>
          /\ response.driver_scores[i].pace_score = [w |-> 913333, n |-> 1, d |-> 3]
          /\ response.driver_scores[j].session_details[1].lap_count = 1
          /\ response.driver_scores[h].session_details[1].lap_count > 200

\* the store holds no lap that is valid for ranking and has a time
NoValidLaps ==
    \A c \in Cells : \A n \in DOMAIN laps[c] :
        ~laps[c][n].is_valid_for_ranking \/ IsNone(laps[c][n].lap_duration)

\* C10: when the store holds zero valid laps, calculate_rankings returns two
\* empty lists and calculate_driver_pace_scores returns an empty mapping.
C10_EmptyStoreGivesEmptyRankings ==
    NoValidLaps =>
        /\ response.kind = "rankings" =>
              response.driver_rankings = <<>> /\ response.team_rankings = <<>>
        /\ response.kind = "driver_scores" => response.driver_scores = <<>>

\* calculate_rankings has answered on a store that holds laps, none of them
\* valid
C10_Witness ==
    /\ NoValidLaps
    /\ \E c \in Cells : laps[c] # <<>>
    /\ response.kind = "rankings"
    /\ response.driver_rankings = <<>>
    /\ response.team_rankings = <<>>

\* C11: not-found is an explicit absent result.  get_session_pecking_order(k)
\* returns None exactly when the store has no session with key k, and
\* get_meeting_pecking_order(k) returns None exactly when it has no meeting
\* with key k.
C11_NotFoundIsAbsent ==
    /\ response.kind = "session" =>
          (response.result.found <=> \E r \in sessions : r.session_key = response.request[2])
    /\ response.kind = "meeting" =>
          (response.result.found <=> \E r \in meetings : r.meeting_key = response.request[2])

\* get_session_pecking_order has answered for a key that is in no table
C11_Witness ==
    /\ response.kind = "session"
    /\ response.request[2] = MissingKey
    /\ ~response.result.found

\* the driver has, in one of the sessions, a lap that is valid for ranking
\* and has a time
HasRankableLap(driver_name, session_keys) ==
    \E c \in JoinedCells :
        /\ c[1] \in session_keys
        /\ DriverRow(c[2], c[1]).full_name = driver_name
        /\ \E n \in DOMAIN laps[c] :
              laps[c][n].is_valid_for_ranking /\ ~IsNone(laps[c][n].lap_duration)

\* C12: every entry of a ranking output carries a defined pace value.  A
\* driver without a lap that has a defined normalized time appears neither in
\* the output of calculate_rankings nor in a session's driver_rankings.
C12_RankedDriversHaveAPace ==
    /\ response.kind = "rankings" =>
          \A i \in DOMAIN response.driver_rankings :
              /\ response.driver_rankings[i].pace_score.d >= 1
              /\ HasRankableLap(response.driver_rankings[i].driver_name, SessionKeys)
    /\ (response.kind = "session" /\ response.result.found) =>
          \A i \in DOMAIN response.result.driver_rankings :
              /\ response.result.driver_rankings[i].normalized_time \in Int
              /\ HasRankableLap(response.result.driver_rankings[i].driver_name,
                                {response.request[2]})

\* a ranking of other drivers on a store in which a driver has laps, none of
\* them valid and timed: the driver is not ranked
C12_Witness ==
    /\ response.kind = "rankings"
    /\ response.driver_rankings # <<>>
    /\ \E c \in JoinedCells :
          /\ laps[c] # <<>>
          /\ ~HasRankableLap(DriverRow(c[2], c[1]).full_name, SessionKeys)
          /\ \A i \in DOMAIN response.driver_rankings :
                response.driver_rankings[i].driver_name # DriverRow(c[2], c[1]).full_name

\* the results a request can return when it runs alone over the store
ResultsAlone(request) ==
    CASE request = <<"rankings">> -> {calculate_rankings(all_laps) : all_laps \in get_all_valid_laps}
      [] request[1] = "session" -> get_session_pecking_order(request[2])
      [] request[1] = "meeting" -> get_meeting_pecking_order(request[2])

\* C13: two ranking requests interleaved over the same unchanged store each
\* return exactly the result the request returns when it runs alone; no
\* aggregation state of one invocation is seen by the other
C13_ConcurrentRequestsIndependent ==
    \A p \in Invocations :
        calls[p].pc = "done" => Val(calls[p].result) \in ResultsAlone(calls[p].request)

\* both invocations ran while the other was in progress, with different
\* requests, and both returned rankings that are not empty
C13_Witness ==
    /\ \A p \in Invocations : calls[p].pc = "done" /\ calls[p].overlapped
    /\ calls[1].request = <<"session", 11>>
    /\ calls[2].request = <<"session", 12>>
    /\ \A p \in Invocations : Val(calls[p].result).driver_rankings # <<>>

\* the least number of a set
LeastOf(S) == CHOOSE m \in S : \A x \in S : m <= x

\* the place of a driver's first lap in the rows of a query over the sessions
\* `session_keys` that is ordered by (meeting date_start DESC, session_key,
\* driver_number, lap_number)
FirstLapOf(driver_name, session_keys) ==
    LeastOf({(1000 - MeetingRow(SessionRow(c[1]).meeting_key).date_start) * 100000
                + c[1] * 100 + c[2] :
                c \in {c \in JoinedCells :
                          /\ c[1] \in session_keys
                          /\ DriverRow(c[2], c[1]).full_name = driver_name
                          /\ \E n \in DOMAIN laps[c] : valid_lap(laps[c][n])}})

\* per session of a meeting and driver ranked in it: the date of the session,
\* the position of the driver and the name
RankedInSessions(meeting_key) ==
    UNION {LET ranking == (CHOOSE r \in get_session_pecking_order(s.session_key) :
                              TRUE).driver_rankings
           IN  {<<s.date_start, ranking[j].position, ranking[j].driver_name>> :
                   j \in DOMAIN ranking} :
              s \in {r \in sessions : r.meeting_key = meeting_key}}

\* the ranked lists of a response, each entry with its pace, its position and
\* the place at which the entity was first met in the input
RankedLists(r) ==
    CASE r.kind = "rankings" ->
            LET seen == {<<r.driver_rankings[i].driver_name, r.driver_rankings[i].team_name,
                           FirstLapOf(r.driver_rankings[i].driver_name, SessionKeys)>> :
                            i \in DOMAIN r.driver_rankings}
            IN  { [i \in DOMAIN r.driver_rankings |->
                      [pace |-> r.driver_rankings[i].pace_score,
                       position |-> r.driver_rankings[i].position,
                       seen |-> LeastOf({t[3] : t \in {t \in seen :
                                   t[1] = r.driver_rankings[i].driver_name}})]],
                  [i \in DOMAIN r.team_rankings |->
                      [pace |-> r.team_rankings[i].pace_score,
                       position |-> r.team_rankings[i].position,
                       seen |-> LeastOf({t[3] : t \in {t \in seen :
                                   t[2] = r.team_rankings[i].team_name}})]] }
      [] r.kind = "session" /\ r.result.found ->
            { [i \in DOMAIN r.result.driver_rankings |->
                  [pace |-> QInt(r.result.driver_rankings[i].normalized_time),
                   position |-> r.result.driver_rankings[i].position,
                   seen |-> FirstLapOf(r.result.driver_rankings[i].driver_name,
                                       {r.request[2]})]] }
      [] r.kind = "meeting" /\ r.result.found ->
            LET ranked == RankedInSessions(r.request[2])
            IN  { [i \in DOMAIN r.result.overall_rankings |->
                      [pace |-> r.result.overall_rankings[i].pace,
                       position |-> r.result.overall_rankings[i].position,
                       seen |-> LeastOf({t[1] * 1000 + t[2] : t \in {t \in ranked :
                                   t[3] = r.result.overall_rankings[i].driver_name}})]] }
      [] r.kind = "breakdown" ->
            { [i \in DOMAIN r.meetings[m].driver_paces |->
                  [pace |-> r.meetings[m].driver_paces[i].pace,
                   position |-> r.meetings[m].driver_paces[i].position,
                   seen |-> FirstLapOf(r.meetings[m].driver_paces[i].driver_name,
                                       {x.session_key : x \in {x \in sessions :
                                           x.meeting_key = r.meetings[m].meeting_key}})]] :
                 m \in DOMAIN r.meetings }
      [] OTHER -> {}

\* C14: in every ranked list of n entries the positions are 1, 2, ..., n in
\* list order, the list is sorted ascending by pace, and entries of equal pace
\* keep the order in which they were first met in the input
C14_PositionsSortedAndStable ==
    \A list \in RankedLists(response) :
        /\ \A i \in DOMAIN list : list[i].position = i
        /\ \A i, j \in DOMAIN list :
              i < j => /\ QLeq(list[i].pace, list[j].pace)
                       /\ QLeq(list[j].pace, list[i].pace) => list[i].seen < list[j].seen

\* rankings of three drivers of which two have the same pace score
C14_Witness ==
    /\ response.kind = "rankings"
    /\ Len(response.driver_rankings) = 3
    /\ \E i \in 1..2 : response.driver_rankings[i].pace_score
                          = response.driver_rankings[i + 1].pace_score

\* the weight configured for a session type, in tenths: 0.5 for a type that
\* has none
ConfiguredWeight(session_type) ==
    CASE session_type = "Practice 1" -> 5
      [] session_type = "Practice 2" -> 7
      [] session_type = "Practice 3" -> 6
      [] session_type \in {"Sprint Qualifying", "Sprint"} -> 8
      [] session_type \in {"Qualifying", "Race"} -> 10
      [] OTHER -> 5

\* per session of a meeting and driver ranked in it: the session, the weight
\* of its type, the driver and the normalized time of the driver's best lap
SessionTimes(meeting_key) ==
    UNION {LET ranking == (CHOOSE r \in get_session_pecking_order(s.session_key) :
                              TRUE).driver_rankings
           IN  {<<s.session_key, ConfiguredWeight(s.session_type), ranking[j].driver_name,
                  ranking[j].normalized_time>> : j \in DOMAIN ranking} :
              s \in {r \in sessions : r.meeting_key = meeting_key}}

SumOver(S, F(_)) == Sum(Map(SetToSeq(S), F))

\* C15: in get_meeting_pecking_order each driver's overall pace is the
\* weighted mean of one value per session in which the driver was ranked, the
\* normalized time of the driver's best lap there, weighted by the session
\* type's weight (0.5 for an unknown type); session_count is the number of
\* those sessions and each driver appears exactly once
C15_MeetingPaceIsWeightedMean ==
    (response.kind = "meeting" /\ response.result.found) =>
        LET times == SessionTimes(response.request[2])
            overall == response.result.overall_rankings
        IN  /\ {overall[i].driver_name : i \in DOMAIN overall} = {t[3] : t \in times}
            /\ \A i, j \in DOMAIN overall :
                  overall[i].driver_name = overall[j].driver_name => i = j
            /\ \A i \in DOMAIN overall :
                  LET mine == {t \in times : t[3] = overall[i].driver_name}
                  IN  /\ overall[i].session_count = Cardinality(mine)
                      /\ overall[i].pace = Q(SumOver(mine, LAMBDA t : t[4] * t[2]),
                                             SumOver(mine, LAMBDA t : t[2]))

\* a driver ranked in Practice 1 and in a session of a type without a weight,
\* with different times
C15_Witness ==
    /\ response.kind = "meeting" /\ response.result.found
    /\ \E i \in DOMAIN response.result.overall_rankings :
          /\ response.result.overall_rankings[i].session_count = 2
          /\ \E t, u \in SessionTimes(response.request[2]) :
                /\ t[3] = response.result.overall_rankings[i].driver_name
                /\ u[3] = t[3]
                /\ t[1] = 21 /\ u[1] = 22
                /\ t[4] # u[4]

\* the session has no lap that is valid for ranking and timed
NoValidLapsIn(session_key) ==
    \A c \in Cells : c[1] = session_key =>
        \A n \in DOMAIN laps[c] :
            ~(laps[c][n].is_valid_for_ranking /\ ~IsNone(laps[c][n].lap_duration))

\* C16: a session that exists but has no valid lap yields a result that is not
\* None, with driver_rankings = [], tire_summary = [] and stats of 0 drivers
\* and 0 laps; a meeting that exists but has no session yields a result that
\* is not None, with empty overall_rankings, session_summaries and sessions
C16_EmptySessionAndMeetingAreFound ==
    /\ ( /\ response.kind = "session"
         /\ response.request[2] \in SessionKeys
         /\ NoValidLapsIn(response.request[2]) )
          => /\ response.result.found
             /\ response.result.driver_rankings = <<>>
             /\ response.result.tire_summary = <<>>
             /\ response.result.stats = [driver_count |-> 0, lap_count |-> 0]
    /\ ( /\ response.kind = "meeting"
         /\ response.request[2] \in MeetingKeys
         /\ ~\E s \in sessions : s.meeting_key = response.request[2] )
          => /\ response.result.found
             /\ response.result.overall_rankings = <<>>
             /\ response.result.session_summaries = <<>>
             /\ response.result.sessions = <<>>

\* the pecking order of a session whose only stored laps are not valid, asked
\* while other sessions have valid laps
C16_Witness ==
    /\ response.kind = "session"
    /\ response.result.found
    /\ response.result.driver_rankings = <<>>
    /\ \E c \in Cells : c[1] = response.request[2] /\ DOMAIN laps[c] # {}
    /\ ~NoValidLaps

\* the durations recorded in one sector column over the valid laps of a
\* driver in a session
RecordedSectors(session_key, driver_name, Column(_)) ==
    UNION {{Val(Column(laps[c][n])) :
               n \in {n \in DOMAIN laps[c] :
                         /\ laps[c][n].is_valid_for_ranking
                         /\ ~IsNone(laps[c][n].lap_duration)
                         /\ ~IsNone(Column(laps[c][n]))}} :
             c \in {c \in JoinedCells :
                       c[1] = session_key /\ DriverRow(c[2], c[1]).full_name = driver_name}}

\* the least of the recorded durations, None when there is none
LeastRecorded(recorded) == IF recorded = {} THEN None ELSE Some(LeastOf(recorded))

\* C17: in a session pecking order each of sector_1, sector_2 and sector_3 of
\* a driver is the minimum of that sector's recorded durations over all of the
\* driver's valid laps in the session, independently per sector, and None for
\* a sector with no recorded duration
C17_BestSectorsAreLeastRecorded ==
    (response.kind = "session" /\ response.result.found) =>
        \A i \in DOMAIN response.result.driver_rankings :
            LET e == response.result.driver_rankings[i]
                k == response.request[2]
            IN  /\ e.sector_1 = LeastRecorded(RecordedSectors(k, e.driver_name,
                                                  LAMBDA l : l.sector_1_duration))
                /\ e.sector_2 = LeastRecorded(RecordedSectors(k, e.driver_name,
                                                  LAMBDA l : l.sector_2_duration))
                /\ e.sector_3 = LeastRecorded(RecordedSectors(k, e.driver_name,
                                                  LAMBDA l : l.sector_3_duration))

\* the place of a compound name in alphabetical order
AlphabeticalRank(compound) ==
    CASE compound = "HARD" -> 1
      [] compound = "INTERMEDIATE" -> 2
      [] compound = "MEDIUM" -> 3
      [] compound = "SOFT" -> 4
      [] compound = "UNKNOWN" -> 5
      [] compound = "WET" -> 6

\* the drivers with a valid lap on the compound in the session
DriversOn(session_key, compound) ==
    {DriverRow(c[2], c[1]).full_name :
        c \in {c \in JoinedCells :
                  /\ c[1] = session_key
                  /\ \E n \in DOMAIN laps[c] :
                        /\ laps[c][n].is_valid_for_ranking
                        /\ ~IsNone(laps[c][n].lap_duration)
                        /\ laps[c][n].compound = compound}}

\* C18: the tire_summary of a session has exactly one entry per compound used
\* by at least one driver in the session, driver_count is the number of
\* distinct drivers with at least one valid lap on the compound, and the
\* entries are sorted ascending by compound name
C18_TireSummaryCountsDrivers ==
    (response.kind = "session" /\ response.result.found) =>
        LET summary == response.result.tire_summary
            k == response.request[2]
        IN  /\ {summary[i].compound : i \in DOMAIN summary}
                  = {compound \in Compounds \ {NoneStr} : DriversOn(k, compound) # {}}
            /\ \A i, j \in DOMAIN summary :
                  i < j => AlphabeticalRank(summary[i].compound)
                              < AlphabeticalRank(summary[j].compound)
            /\ \A i \in DOMAIN summary :
                  summary[i].driver_count = Cardinality(DriversOn(k, summary[i].compound))

\* a session in which two compounds were used, one of them by two drivers
C18_Witness ==
    /\ response.kind = "session" /\ response.result.found
    /\ Len(response.result.tire_summary) >= 2
    /\ \E i \in DOMAIN response.result.tire_summary :
          response.result.tire_summary[i].driver_count = 2

\* the driver scores a response carries
ScoresOf(r) ==
    CASE r.kind = "driver_scores" -> r.driver_scores
      [] r.kind = "rankings" -> r.driver_rankings
      [] OTHER -> <<>>

\* the session types in which the driver has a normalized lap
TypesOf(driver_name) ==
    {SessionRow(c[1]).session_type :
        c \in {c \in JoinedCells :
                  /\ DriverRow(c[2], c[1]).full_name = driver_name
                  /\ \E n \in DOMAIN laps[c] :
                        laps[c][n].is_valid_for_ranking /\ ~IsNone(laps[c][n].lap_duration)}}

\* C22: a driver's pace_score is the weighted mean sum(t*w)/sum(w) over the
\* pooled best-slice entries of all of the driver's session types, every entry
\* of a session type's best slice carrying the configured weight of that type,
\* 0.5 for a type that is not in the weight table
C22_PaceScoreIsPooledWeightedMean ==
    \A i \in DOMAIN ScoresOf(response) :
        LET score == ScoresOf(response)[i]
            types == SetToSeq(TypesOf(score.driver_name))
            slices == [j \in DOMAIN types |->
                          LET times == StoredTimes(score.driver_name, types[j])
                              k == SliceSize(Len(times))
                          IN  <<ConfiguredWeight(types[j]) * SumOfLeast(times, k),
                                ConfiguredWeight(types[j]) * k>>]
        IN  /\ {score.session_details[j].session_type : j \in DOMAIN score.session_details}
                  = TypesOf(score.driver_name)
            /\ score.pace_score = Q(Sum(Map(slices, LAMBDA s : s[1])),
                                    Sum(Map(slices, LAMBDA s : s[2])))

\* the score of a driver with best slices of different sizes in three session
\* types, one of them without a configured weight
C22_Witness ==
    /\ response.kind = "driver_scores"
    /\ \E i \in DOMAIN response.driver_scores :
          LET details == response.driver_scores[i].session_details
          IN  /\ Len(details) = 3
              /\ \E j, h \in DOMAIN details :
                    /\ details[j].session_type = "Sprint Shootout"
                    /\ details[j].lap_count = 2
                    /\ details[h].session_type = "Race"
                    /\ details[h].lap_count >= 3

\* the number of the driver's normalized laps in each of the driver's session
\* types, and the size of the best slice taken from them
LapCounts(driver_name) ==
    LET types == SetToSeq(TypesOf(driver_name))
    IN  [j \in DOMAIN types |->
            LET n == Len(StoredTimes(driver_name, types[j]))
            IN  [session_type |-> types[j], laps |-> n, slice |-> SliceSize(n)]]

\* C23 as stated: total_laps is the number of laps contributing to the
\* driver's pace_score, the entries of the pooled best slices, and each
\* session type's lap_count is the number of the driver's normalized laps in it
C23_Original ==
    \A i \in DOMAIN ScoresOf(response) :
        LET score == ScoresOf(response)[i]
            counts == LapCounts(score.driver_name)
        IN  /\ score.total_laps = Sum(Map(counts, LAMBDA c : c.slice))
            /\ \A j \in DOMAIN score.session_details :
                  \E h \in DOMAIN counts :
                      /\ counts[h].session_type = score.session_details[j].session_type
                      /\ counts[h].laps = score.session_details[j].lap_count

\* C23 (amended): total_laps is the number of all of the driver's normalized
\* laps, the sum of the lap_counts of the session types, whether or not a lap
\* is in a best slice; each session type's lap_count is the number of the
\* driver's normalized laps in that session type
C23_TotalLapsCountsEveryNormalizedLap ==
    \A i \in DOMAIN ScoresOf(response) :
        LET score == ScoresOf(response)[i]
            counts == LapCounts(score.driver_name)
        IN  /\ score.total_laps = Sum(Map(counts, LAMBDA c : c.laps))
            /\ score.total_laps = Sum(Map(score.session_details, LAMBDA d : d.lap_count))
            /\ \A j \in DOMAIN score.session_details :
                  \E h \in DOMAIN counts :
                      /\ counts[h].session_type = score.session_details[j].session_type
                      /\ counts[h].laps = score.session_details[j].lap_count

\* the score of a driver with 37 normalized laps in one session type, of which
\* three are in the best slice
C23_Witness ==
    /\ response.kind = "driver_scores"
    /\ \E i \in DOMAIN response.driver_scores :
          /\ Len(response.driver_scores[i].session_details) = 1
          /\ response.driver_scores[i].session_details[1].lap_count = LongStintLaps
          /\ response.driver_scores[i].total_laps = LongStintLaps

\* C24: calculate_team_pace_scores partitions the drivers by team: a driver
\* whose team is missing (None or empty) is in no team, every driver with a
\* team is in the member list of exactly one team, its own, no team has an
\* empty member list, and a team's total_laps is the sum of its members'
\* total_laps
C24_TeamsPartitionDrivers ==
    response.kind = "rankings" =>
        LET ds == response.driver_rankings
            ts == response.team_rankings
            TeamsOf(name) == {t \in DOMAIN ts :
                                 \E m \in DOMAIN ts[t].drivers : ts[t].drivers[m] = name}
        IN  /\ \A i \in DOMAIN ds :
                  IF ds[i].team_name \in {NoneStr, ""}
                  THEN TeamsOf(ds[i].driver_name) = {}
                  ELSE /\ Cardinality(TeamsOf(ds[i].driver_name)) = 1
                       /\ \A t \in TeamsOf(ds[i].driver_name) :
                             /\ ts[t].team_name = ds[i].team_name
                             /\ Cardinality({m \in DOMAIN ts[t].drivers :
                                                ts[t].drivers[m] = ds[i].driver_name}) = 1
            /\ \A t \in DOMAIN ts :
                  /\ ts[t].drivers # <<>>
                  /\ \A m \in DOMAIN ts[t].drivers :
                        \E i \in DOMAIN ds : ds[i].driver_name = ts[t].drivers[m]
                  /\ ts[t].total_laps =
                        Sum(Map(SelectSeq(ds, LAMBDA d : d.team_name = ts[t].team_name),
                                LAMBDA d : d.total_laps))
            /\ \A t, u \in DOMAIN ts : ts[t].team_name = ts[u].team_name => t = u

\* rankings with a team of two drivers and a driver without a team
C24_Witness ==
    /\ response.kind = "rankings"
    /\ \E i \in DOMAIN response.driver_rankings :
          response.driver_rankings[i].team_name = NoneStr
    /\ \E t \in DOMAIN response.team_rankings : Len(response.team_rankings[t].drivers) = 2

\* the meeting results that concurrent invocations have returned
MeetingResults ==
    {<<calls[p].request[2], Val(calls[p].result)>> :
        p \in {p \in Invocations :
                  /\ calls[p].pc = "done"
                  /\ calls[p].request[1] = "meeting"
                  /\ Val(calls[p].result).found}}

\* the driver_rankings of a session's pecking order
RankingOfSession(session_key) ==
    (CHOOSE r \in get_session_pecking_order(session_key) : TRUE).driver_rankings

\* C25: in get_meeting_pecking_order, session_summaries has one entry for each
\* session of the meeting that has at least one ranked driver (the others are
\* left out but are still in 'sessions'), in ascending order of the session
\* start time, and each entry's top_3 is exactly the first min(3, n) entries of
\* that session's driver_rankings
C25_SessionSummariesPreviewTopThree ==
    \A mr \in MeetingResults :
        LET of_meeting == {s.session_key : s \in {s \in sessions : s.meeting_key = mr[1]}}
            ranked == {<<k, RankingOfSession(k)>> : k \in of_meeting}
            RankingOf(k) == (CHOOSE x \in ranked : x[1] = k)[2]
            summaries == mr[2].session_summaries
        IN  /\ {summaries[i].session_key : i \in DOMAIN summaries}
                  = {k \in of_meeting : RankingOf(k) # <<>>}
            /\ \A i, j \in DOMAIN summaries :
                  i < j => SessionRow(summaries[i].session_key).date_start
                              < SessionRow(summaries[j].session_key).date_start
            /\ {mr[2].sessions[i].session_key : i \in DOMAIN mr[2].sessions} = of_meeting
            /\ Len(mr[2].sessions) = Cardinality(of_meeting)
            /\ \A i \in DOMAIN summaries :
                  LET ranking == RankingOf(summaries[i].session_key)
                  IN  summaries[i].top_3
                         = [j \in 1..Min(3, Len(ranking)) |-> ranking[j]]

\* a meeting of two sessions of which one has four ranked drivers and the
\* other has none
C25_Witness ==
    \E mr \in MeetingResults :
        /\ Len(mr[2].sessions) = 2
        /\ Len(mr[2].session_summaries) = 1
        /\ mr[2].session_summaries[1].driver_count = 4
        /\ Len(mr[2].session_summaries[1].top_3) = 3

\* the durations of the laps of the marked list that are plausible: recorded,
\* not 0 and strictly between 60 and 180 seconds
PlausibleDurations ==
    LET plausible == SelectSeq(marking.laps, LAMBDA lap :
                         /\ ~IsNone(lap.lap_duration)
                         /\ Val(lap.lap_duration) > 600000
                         /\ Val(lap.lap_duration) < 1800000)
    IN  [i \in DOMAIN plausible |-> Val(plausible[i].lap_duration)]

\* C26: after mark_invalid_laps on a non-empty lap list every lap has
\* is_valid_for_ranking set; a lap is marked valid only if it has a recorded
\* duration, is not a pit-out lap, its duration is within [60 s, 180 s] and is
\* at most 1.5 times the average of the plausible laps (and, in a Qualifying
\* session, at most 1.05 times the best plausible lap); if no lap has a
\* plausible duration every lap is marked invalid
C26_MarkedValidOnlyIfPlausible ==
    (marking.pc = "marked" /\ marking.laps # <<>>) =>
        LET plausible == PlausibleDurations
        IN  /\ \A i \in DOMAIN marking.laps :
                  marking.laps[i].is_valid_for_ranking \in {Some(TRUE), Some(FALSE)}
            /\ \A i \in DOMAIN marking.laps :
                  marking.laps[i].is_valid_for_ranking = Some(TRUE) =>
                      LET lap == marking.laps[i]
                      IN  /\ ~IsNone(lap.lap_duration)
                          /\ ~lap.is_pit_out_lap
                          /\ Val(lap.lap_duration) >= 600000
                          /\ Val(lap.lap_duration) <= 1800000
                          /\ plausible # <<>>
                          /\ 2 * Len(plausible) * Val(lap.lap_duration) <= 3 * Sum(plausible)
                          /\ marking.session_type = "Qualifying"
                                => 20 * Val(lap.lap_duration) <= 21 * MinOf(plausible)
            /\ plausible = <<>> =>
                  \A i \in DOMAIN marking.laps :
                      marking.laps[i].is_valid_for_ranking = Some(FALSE)

\* a marked Qualifying list with a valid lap, a pit-out lap of the same
\* duration and a lap more than 5% off the best, both marked invalid
C26_Witness ==
    /\ marking.pc = "marked" /\ marking.session_type = "Qualifying"
    /\ \E i, j, h \in DOMAIN marking.laps :
          /\ marking.laps[i].is_valid_for_ranking = Some(TRUE)
          /\ marking.laps[j].is_pit_out_lap
          /\ marking.laps[j].lap_duration = marking.laps[i].lap_duration
          /\ marking.laps[j].is_valid_for_ranking = Some(FALSE)
          /\ ~marking.laps[h].is_pit_out_lap
          /\ marking.laps[h].lap_duration = Some(Ticks(85))
          /\ marking.laps[h].is_valid_for_ranking = Some(FALSE)

\* the k-th least of the times (1 <= k <= their number): the slowest entry of
\* the best slice of size k
KthLeast(times, k) ==
    CHOOSE v \in Range(times) :
        /\ Cardinality({i \in DOMAIN times : times[i] < v}) < k
        /\ k <= Cardinality({i \in DOMAIN times : times[i] <= v})

\* the largest time in the pooled best slices of the driver's session types
LargestPooled(driver_name) ==
    LET slowest == {KthLeast(StoredTimes(driver_name, st),
                             SliceSize(Len(StoredTimes(driver_name, st)))) :
                        st \in TypesOf(driver_name)}
    IN  CHOOSE v \in slowest : \A u \in slowest : u <= v

C29_LeaderHasTeam ==
    /\ response.kind = "rankings"
    /\ response.driver_rankings # <<>>
    /\ Truthy(response.driver_rankings[1].team_name)
    /\ Len(response.team_rankings[1].drivers) = 2
    /\ response.team_rankings[1].pace_score = response.driver_rankings[1].pace_score

\* the sum of two fractions is at least the third: a <= b + c
QLeqSum(a, b, c) == QLeq(a, QAdd(b, c))

\* C30: every team score has driver_gap >= 0 and
\* pace_score <= team_average <= pace_score + driver_gap; a team with exactly
\* one driver has driver_gap = 0 and team_average = pace_score
C30_TeamAverageWithinDriverGap ==
    response.kind = "rankings" =>
        \A i \in DOMAIN response.team_rankings :
            LET team == response.team_rankings[i]
            IN  /\ QLeq(QZero, team.driver_gap)
                /\ QLeq(team.pace_score, team.team_average)
                /\ QLeqSum(team.team_average, team.pace_score, team.driver_gap)
                /\ Len(team.drivers) = 1 =>
                      /\ team.driver_gap = QZero
                      /\ team.team_average = team.pace_score

\* rankings with a team of two drivers of different pace, its average strictly
\* between the bounds, and a team with one ranked driver
C30_Witness ==
    /\ response.kind = "rankings"
    /\ \E i, j \in DOMAIN response.team_rankings :
          LET team == response.team_rankings[i]
              alone == response.team_rankings[j]
          IN  /\ Len(team.drivers) = 2
              /\ QLess(QZero, team.driver_gap)
              /\ QLess(team.pace_score, team.team_average)
              /\ QLess(team.team_average, QAdd(team.pace_score, team.driver_gap))
              /\ Len(alone.drivers) = 1
              /\ alone.driver_gap = QZero
              /\ alone.team_average = alone.pace_score

=============================================================================
